---- MODULE Spec2Model ----
(***************************************************************************)
(* A model of the skim interpreter: the environment (interp.Context), the  *)
(* evaluator (Context.Eval) and closures (builtins.Lambda).                *)
(*                                                                         *)
(* Frames live in a heap, a sequence of records; a *Context is an index    *)
(* into it and 0 is the nil *Context.  A Go map is a function whose DOMAIN *)
(* is the set of keys present.  Atoms are tagged tuples.                   *)
(***************************************************************************)
EXTENDS Integers, Sequences, FiniteSets, TLC

VARIABLES heap, lam, last, nops, threads, tm, um, dec

vars == <<heap, lam, last, nops, threads, tm, um, dec>>

(***************************************************************************)
(* Bounds.                                                                 *)
(***************************************************************************)
MaxCtx == 3

MaxOps == 3

\* The same, around a closure.
MaxLamOps == 2

MaxArgs == 2

(***************************************************************************)
(* Atoms.                                                                  *)
(***************************************************************************)
Nil == <<"nil">>

Integer(n) == <<"int", n>>

Sym(s) == <<"sym", s>>

Cons(car, cdr) == <<"cons", car, cdr>>

Vector(elems) == <<"vec", elems>>

Proc(name) == <<"proc", name>>

\* A *Lambda: its fields never change after construction.
LambdaAtom(ctx, args, body) == <<"lambda", ctx, args, body>>

Unbound == <<"unbound">>

Kind(a) == a[1]

EmptyMap == [k \in {} |-> Nil]

MapSet(m, key, v) == [k \in DOMAIN m \cup {key} |-> IF k = key THEN v ELSE m[k]]

(***************************************************************************)
(* Inputs of the environment operations.                                   *)
(***************************************************************************)
Symbols == {"x", "y"}

\* A frame binds a value of its own, so that a binding found by a lookup
\* tells the frame it was made in.
Values(c) == {Integer(c)}

Ctxs == 1..Len(heap)

(***************************************************************************)
(* interp.Context                                                          *)
(***************************************************************************)
NewFrame(up) == [up |-> up, table |-> EmptyMap, upval |-> EmptyMap]

Fork(h, c) == Append(h, NewFrame(c))

NewContext(h) == Fork(h, 0)

\* A Bind that also writes the entry into the parent frame.
BindThrough(h, c, name, value) ==
    IF c = 0 THEN h
    ELSE IF h[c].up = 0 THEN [h EXCEPT ![c].table = MapSet(@, name, value)]
    ELSE [h EXCEPT ![c].table = MapSet(@, name, value),
                   ![h[c].up].table = MapSet(@, name, value)]

Bind(h, c, name, value) ==
    IF c = 0 THEN h
    ELSE [h EXCEPT ![c].table = MapSet(@, name, value)]

UnbindOk(h, c, name) == c # 0 /\ name \in DOMAIN h[c].table

Unbind(h, c, name) ==
    IF UnbindOk(h, c, name)
    THEN [h EXCEPT ![c].table = MapSet(@, name, Unbound)]
    ELSE h

resolveInTableSkipsTombstone(name, table) ==
    IF name \notin DOMAIN table \/ table[name] = Unbound
    THEN [value |-> Nil, bound |-> FALSE, ok |-> FALSE]
    ELSE [value |-> table[name], bound |-> TRUE, ok |-> TRUE]

resolveInTable(name, table) ==
    IF name \notin DOMAIN table
    THEN [value |-> Nil, bound |-> FALSE, ok |-> FALSE]
    ELSE IF table[name] = Unbound
         THEN [value |-> Nil, bound |-> TRUE, ok |-> FALSE]
         ELSE [value |-> table[name], bound |-> TRUE, ok |-> TRUE]

RECURSIVE Resolve(_, _, _)
Resolve(h, c, name) ==
    IF c = 0 THEN [value |-> Nil, ok |-> FALSE]
    ELSE LET r == resolveInTable(name, h[c].table)
         IN  IF r.bound THEN [value |-> r.value, ok |-> r.ok]
             ELSE Resolve(h, h[c].up, name)

\* The loop of Dup over c, c.up, ...: an entry equal to Unbound is skipped,
\* any other entry is copied unless the key is already set.
RECURSIVE DupTable(_, _, _)
DupTable(h, c, table) ==
    IF c = 0 THEN table
    ELSE LET t    == h[c].table
             live == {k \in DOMAIN t : t[k] # Unbound}
         IN  DupTable(h, h[c].up,
                      [k \in DOMAIN table \cup live |->
                          IF k \in DOMAIN table THEN table[k] ELSE t[k]])

DupFrame(h, c) == [up |-> 0, table |-> DupTable(h, c, EmptyMap), upval |-> h[c].upval]

Dup(h, c) == Append(h, DupFrame(h, c))

Overlay(h, c, parent) == Append(h, [DupFrame(h, c) EXCEPT !.up = parent])

Parent(h, c) == IF c = 0 THEN 0 ELSE h[c].up

MapDelete(m, key) == [k \in DOMAIN m \ {key} |-> m[k]]

\* c.SetUpvalue(name, val); Nil is the nil interface.
SetUpvalue(h, c, name, val) ==
    IF val # Nil THEN [h EXCEPT ![c].upval = MapSet(@, name, val)]
    ELSE [h EXCEPT ![c].upval = MapDelete(@, name)]

\* c.Upvalue(name)
Upvalue(h, c, name) ==
    IF c = 0 THEN Nil
    ELSE IF name \in DOMAIN h[c].upval THEN h[c].upval[name] ELSE Nil

(***************************************************************************)
(* skim: structural helpers                                                *)
(***************************************************************************)
CarOf(a) == a[2]

CdrOf(a) == a[3]

IsCons(a) == Kind(a) = "cons"

\* The elements Walk hands to fn, in order, when fn never fails, and whether
\* the walk then ends on a tail that is neither nil nor a cons.
RECURSIVE WalkCons(_)
WalkCons(a) ==
    IF a = Nil THEN [visits |-> <<>>, err |-> FALSE]
    ELSE IF IsCons(a)
         THEN IF CarOf(a) = Nil /\ CdrOf(a) = Nil
              THEN [visits |-> <<>>, err |-> FALSE]
              ELSE LET r == WalkCons(CdrOf(a))
                   IN  [visits |-> <<CarOf(a)>> \o r.visits, err |-> r.err]
         ELSE [visits |-> <<>>, err |-> TRUE]

Walk(a) == IF Kind(a) = "vec" THEN [visits |-> a[2], err |-> FALSE] ELSE WalkCons(a)

RECURSIVE List(_)
List(args) ==
    IF Len(args) = 0 THEN Cons(Nil, Nil)
    ELSE IF Len(args) = 1 THEN Cons(args[1], Nil)
         ELSE Cons(args[1], List(Tail(args)))

\* The %T of an atom.
GoType(a) ==
    CASE Kind(a) = "nil" -> "<nil>"
      [] Kind(a) = "int" -> "skim.Int"
      [] Kind(a) = "sym" -> "skim.Symbol"
      [] Kind(a) = "str" -> "skim.String"
      [] Kind(a) = "bool" -> "skim.Bool"
      [] Kind(a) = "vec" -> "skim.Vector"
      [] Kind(a) = "cons" -> "*skim.Cons"
      [] OTHER -> Kind(a)

NotCons(op, a) ==
    [value |-> Nil, err |-> "skim: c" \o op \o "r: " \o GoType(a) \o " is not a *Cons"]

\* A composed accessor that applies its letters from left to right.
RECURSIVE cadrLeftToRight(_, _)
cadrLeftToRight(a, seq) ==
    IF Len(seq) = 0 THEN [value |-> a, err |-> ""]
    ELSE IF ~IsCons(a) THEN NotCons(seq[1], a)
    ELSE cadrLeftToRight(IF seq[1] = "a" THEN CarOf(a) ELSE CdrOf(a), Tail(seq))

RECURSIVE cadr(_, _)
cadr(a, seq) ==
    IF Len(seq) = 0 THEN [value |-> a, err |-> ""]
    ELSE IF ~IsCons(a) THEN NotCons(seq[Len(seq)], a)
    ELSE cadr(IF seq[Len(seq)] = "a" THEN CarOf(a) ELSE CdrOf(a), SubSeq(seq, 1, Len(seq) - 1))

Car(a) == IF ~IsCons(a) THEN NotCons("a", a) ELSE [value |-> CarOf(a), err |-> ""]

Cdr(a) == IF ~IsCons(a) THEN NotCons("d", a) ELSE [value |-> CdrOf(a), err |-> ""]

Cadr(a) == cadr(a, <<"a", "d">>)

Cddr(a) == cadr(a, <<"d", "d">>)

\* skim.Dup: a structural deep copy of an atom.
RECURSIVE SkimDup(_)
SkimDup(a) ==
    IF IsCons(a) THEN Cons(SkimDup(CarOf(a)), SkimDup(CdrOf(a)))
    ELSE IF Kind(a) = "vec" THEN Vector([i \in DOMAIN a[2] |-> SkimDup(a[2][i])])
         ELSE a

(***************************************************************************)
(* Evaluation.  An evaluation threads st = [h, log]: the heap, and the     *)
(* record of what a closure invocation did.  A result is the resulting st, *)
(* the value and the error ("" is the nil error).                          *)
(***************************************************************************)
Ok(st, v) == [st |-> st, value |-> v, err |-> ""]

Fail(st, e) == [st |-> st, value |-> Nil, err |-> e]

IsEvalerAny(a) == TRUE

IsEvaler(a) == Kind(a) \in {"proc", "lambda"}

Logged(st, ev) == [st EXCEPT !.log = Append(@, ev)]

ArgFrameInCall(h, ctx, call) == [h |-> h, c |-> call]

\* lambda.go:74 -- an argument is evaluated in ctx.Fork(), a new child of
\* the caller's context.
ArgFrame(h, ctx, call) == [h |-> Fork(h, ctx), c |-> Len(h) + 1]

TooMany(argi, nargs) == argi >= nargs

TooFewOnlyBeyond(argi, nargs) == argi > nargs

TooFew(argi, nargs) == argi # nargs

CallFrameOfCaller(h, l, ctx) == Overlay(h, ctx, ctx)

\* lambda.go:66 -- the call frame is l.ctx.Overlay(ctx), taken at the call.
CallFrame(h, l, ctx) == Overlay(h, l[2], ctx)

Event(ev, i, form, c, before, r) ==
    [ev |-> ev, i |-> i, form |-> form, c |-> c, frame |-> before,
     value |-> r.value, err |-> r.err]

\* The state after r, with the evaluation that produced r recorded.
LogResult(r, ev, i, form, c, before) ==
    Logged(r.st, Event(ev, i, form, c, before, r))

\* A runtime panic unwinding out of a callable with the state st.
Panic(st, e) == [st |-> st, value |-> Nil, err |-> e, panic |-> TRUE]

Panicked(r) == "panic" \in DOMAIN r

RecoverNothing(r) == r

\* context.go:325-335 -- the deferred recover of Context.Eval: the panic
\* becomes the error, and the result is nil.
Recover(r) ==
    IF Panicked(r)
    THEN Fail(Logged(r.st, [ev |-> "recover", i |-> 0, form |-> Nil, c |-> 0,
                            frame |-> Nil, value |-> Nil, err |-> r.err]), r.err)
    ELSE r

\* The record of evaler.Eval(c, argv) being called.
Invocation(p, c, argv) ==
    [ev |-> "invoke", i |-> 0, form |-> argv, c |-> c, frame |-> Nil,
     value |-> p.value, err |-> ""]

RECURSIVE Eval(_, _, _)
RECURSIVE EvalerEval(_, _, _, _)
RECURSIVE SetQuotedLoop(_, _, _, _)
RECURSIVE LambdaArgs(_, _, _, _, _, _)
RECURSIVE LambdaBody(_, _, _, _, _)
RECURSIVE LetBind(_, _, _, _, _)
RECURSIVE LetBody(_, _, _, _, _)
RECURSIVE CondLoop(_, _, _)
RECURSIVE CondBody(_, _, _, _, _)

\* Context.Eval once the head of the form has been evaluated to p.
EvalCall(p, c, argv) ==
    IF p.err # "" THEN Fail(p.st, p.err)
    ELSE IF ~IsEvaler(p.value) THEN Fail(p.st, "uncallable")
    ELSE IF argv # Nil /\ ~IsCons(argv) THEN Fail(p.st, "illformed")
    ELSE Recover(EvalerEval(Logged(p.st, Invocation(p, c, argv)), p.value, c, argv))

EvalSymbolFound(st, v) == Ok(st, v.value)

\* Context.Eval of a symbol, v the outcome of Resolve.
EvalSymbol(st, v) == IF v.ok THEN Ok(st, v.value) ELSE Fail(st, "undefined")

\* Context.Eval
Eval(st, c, a) ==
    IF IsCons(a) THEN EvalCall(Eval(st, c, CarOf(a)), c, CdrOf(a))
    ELSE IF Kind(a) = "sym" THEN EvalSymbol(st, Resolve(st.h, c, a[2]))
    ELSE Ok(st, a)

\* One pair of builtins.SetQuoted once its expression has been evaluated to r.
SetQuotedPair(r, ctx, name, next) ==
    IF r.err # "" THEN Fail(r.st, r.err)
    ELSE IF next.err # "" THEN Fail(r.st, next.err)
    ELSE SetQuotedLoop([r.st EXCEPT !.h = Bind(@, ctx, name, r.value)],
                       ctx, next.value, r.value)

\* builtins.SetQuoted
SetQuotedLoop(st, ctx, a, result) ==
    IF a = Nil THEN Ok(st, result)
    ELSE LET name == Car(a)
             expr == Cadr(a)
         IN  IF name.err # "" THEN Fail(st, name.err)
             ELSE IF Kind(name.value) # "sym" THEN Fail(st, "setq")
             ELSE IF expr.err # "" THEN Fail(st, expr.err)
             ELSE SetQuotedPair(Eval(st, ctx, expr.value), ctx, name.value[2], Cddr(a))

SetQuoted(st, ctx, form) ==
    IF form = Nil THEN Ok(st, Nil) ELSE SetQuotedLoop(st, ctx, form, Nil)

\* The argument loop of Lambda.Eval after an argument has been bound; argi
\* counts the arguments bound.
LambdaArgRest(stb, l, ctx, call, rest, argi) ==
    IF rest = Nil THEN [st |-> stb, err |-> "", argi |-> argi]
    ELSE IF IsCons(rest) THEN LambdaArgs(stb, l, ctx, call, rest, argi)
    ELSE [st |-> stb, err |-> "notlist", argi |-> argi]

\* The argument loop of Lambda.Eval once the argument has been evaluated, in
\* the frame f.c, to r.
LambdaArg(r, f, l, call, ctx, form, argi) ==
    IF r.err # ""
    THEN [st |-> LogResult(r, "arg", argi + 1, CarOf(form), f.c, f.h[f.c]),
          err |-> "argerr", argi |-> argi]
    ELSE LambdaArgRest(
             [LogResult(r, "arg", argi + 1, CarOf(form), f.c, f.h[f.c])
                 EXCEPT !.h = Bind(@, call, l[3][argi + 1], r.value)],
             l, ctx, call, CdrOf(form), argi + 1)

\* The argument loop of Lambda.Eval; the result carries argi.
LambdaArgs(st, l, ctx, call, form, argi) ==
    IF form = Nil THEN [st |-> st, err |-> "", argi |-> argi]
    ELSE IF TooMany(argi, Len(l[3])) THEN [st |-> st, err |-> "toomany", argi |-> argi]
    ELSE LET f == ArgFrame(st.h, ctx, call)
         IN  LambdaArg(Eval([st EXCEPT !.h = f.h], f.c, CarOf(form)),
                       f, l, call, ctx, form, argi)

\* The callback Lambda.Eval hands to skim.Walk, once visits[i] has been
\* evaluated to r.
LambdaBodyForm(r, before, call, visits, i) ==
    IF r.err # "" THEN Fail(LogResult(r, "body", i, visits[i], call, before), r.err)
    ELSE LambdaBody(LogResult(r, "body", i, visits[i], call, before),
                    call, visits, i + 1, r.value)

\* The callback Lambda.Eval hands to skim.Walk, applied to visits[i..].
LambdaBody(st, call, visits, i, result) ==
    IF i > Len(visits) THEN Ok(st, result)
    ELSE LambdaBodyForm(Eval(st, call, visits[i]), st.h[call], call, visits, i)

\* The end of Lambda.Eval: b the outcome of the callback, werr whether
\* skim.Walk itself failed.
LambdaWalked(b, werr) ==
    IF b.err # "" THEN Fail(b.st, b.err)
    ELSE IF werr THEN Fail(b.st, "walk")
    ELSE Ok(b.st, b.value)

\* Lambda.Eval once the argument loop has ended with a.
LambdaApply(a, l, call) ==
    IF a.err # "" THEN Fail(a.st, a.err)
    ELSE IF TooFew(a.argi, Len(l[3])) THEN Fail(a.st, "toofew")
    ELSE LambdaWalked(LambdaBody(a.st, call, Walk(l[4]).visits, 1, Nil), Walk(l[4]).err)

\* The call frame of Lambda.Eval, recorded.
Called(st, l, ctx) ==
    LET h == CallFrame(st.h, l, ctx)
    IN  [h |-> h,
         log |-> Append(st.log, [ev |-> "call", i |-> 0, form |-> Nil, c |-> Len(h),
                                 frame |-> h[Len(h)], value |-> Nil, err |-> ""])]

\* Lambda.Eval binding in the context it was called from.
LambdaEvalInCaller(st, l, ctx, form) ==
    LambdaApply(LambdaArgs(Logged(st, [ev |-> "call", i |-> 0, form |-> Nil, c |-> ctx,
                                       frame |-> st.h[ctx], value |-> Nil, err |-> ""]),
                           l, ctx, ctx, form, 0),
                l, ctx)

\* Lambda.Eval
LambdaEval(st, l, ctx, form) ==
    LambdaApply(LambdaArgs(Called(st, l, ctx), l, ctx, Len(st.h) + 1, form, 0),
                l, Len(st.h) + 1)

QuoteFnEvaluated(st, c, v) ==
    IF v = Nil THEN Panic(st, "nilderef") ELSE Eval(st, c, CarOf(v))

\* builtins.QuoteFn; v.Car of a nil v is a nil dereference.
QuoteFn(st, c, v) == IF v = Nil THEN Panic(st, "nilderef") ELSE Ok(st, CarOf(v))

\* skim.Pair
Pair(a) ==
    IF ~IsCons(a) THEN [lhs |-> Nil, rhs |-> Nil, err |-> "car"]
    ELSE IF ~IsCons(CdrOf(a)) THEN [lhs |-> Nil, rhs |-> Nil, err |-> "cdr"]
    ELSE IF CdrOf(CdrOf(a)) # Nil THEN [lhs |-> Nil, rhs |-> Nil, err |-> "cddr"]
    ELSE [lhs |-> CarOf(a), rhs |-> CarOf(CdrOf(a)), err |-> ""]

RECURSIVE ExpandLoop(_, _, _, _, _)

\* The callback of builtins.Map once visits[i] has been mapped to r.
ExpandNext(r, ctx, visits, i, acc) ==
    IF r.err # "" THEN [st |-> r.st, values |-> acc, err |-> r.err]
    ELSE ExpandLoop(r.st, ctx, visits, i + 1, Append(acc, r.value))

\* The callback of builtins.Map with mapfn = ctx.Eval, applied to visits[i..].
ExpandLoop(st, ctx, visits, i, acc) ==
    IF i > Len(visits) THEN [st |-> st, values |-> acc, err |-> ""]
    ELSE ExpandNext(Eval(st, ctx, visits[i]), ctx, visits, i, acc)

\* The end of builtins.Map: root.(*skim.Cons) panics when nothing was mapped.
Expanded(e, werr) ==
    IF e.err # "" THEN Fail(e.st, e.err)
    ELSE IF werr THEN Fail(e.st, "walk")
    ELSE IF e.values = <<>> THEN Panic(e.st, "assert")
    ELSE Ok(e.st, List(e.values))

\* builtins.Expand
Expand(st, ctx, list) ==
    IF list = Nil THEN Ok(st, Nil)
    ELSE Expanded(ExpandLoop(st, ctx, Walk(list).visits, 1, <<>>), Walk(list).err)

\* Go's % on int64: the remainder of the truncated division.
Rem(a, b) ==
    LET abs(n) == IF n < 0 THEN -n ELSE n
    IN  IF a < 0 THEN -(abs(a) % abs(b)) ELSE a % abs(b)

\* builtins.Mod once its form has been expanded to f; the integer % panics
\* on a zero divisor.
ModOp(f) ==
    IF Panicked(f) THEN f
    ELSE IF f.err # "" THEN Fail(f.st, f.err)
    ELSE LET p == Pair(f.value)
         IN  IF p.err # "" THEN Fail(f.st, "modargs")
             ELSE IF Kind(p.lhs) # "int" THEN Fail(f.st, "modlhs")
             ELSE IF Kind(p.rhs) # "int" THEN Fail(f.st, "modrhs")
             ELSE IF p.rhs[2] = 0 THEN Panic(f.st, "divide")
             ELSE Ok(f.st, Integer(Rem(p.lhs[2], p.rhs[2])))

\* builtins.Mod
Mod(st, ctx, form) == ModOp(Expand(st, ctx, form))

\* The callback of binopReduce with sum, applied to visits[i..]: memo is the
\* sum so far.
RECURSIVE SumLoop(_, _, _)
SumLoop(visits, i, memo) ==
    IF i > Len(visits) THEN [value |-> Integer(memo), err |-> ""]
    ELSE IF Kind(visits[i]) # "int" THEN [value |-> Nil, err |-> "+: cannot sum"]
    ELSE SumLoop(visits, i + 1, memo + visits[i][2])

\* sumOp, on the expanded form f.
SumOp(f) ==
    IF Panicked(f) THEN f
    ELSE IF f.err # "" THEN Fail(f.st, f.err)
    ELSE IF f.value = Nil THEN Fail(f.st, "+: expected >=1 arguments")
    ELSE IF Kind(CarOf(f.value)) # "int" THEN Fail(f.st, "+: cannot sum")
    ELSE LET w == Walk(CdrOf(f.value))
             r == SumLoop(w.visits, 1, CarOf(f.value)[2])
         IN  IF r.err # "" THEN Fail(f.st, r.err)
             ELSE IF w.err THEN Fail(f.st, "walk")
             ELSE Ok(f.st, r.value)

\* builtins.Sum
Sum(st, ctx, form) == IF form = Nil THEN Ok(st, Integer(0)) ELSE SumOp(Expand(st, ctx, form))

\* The first callback of letform once the initialiser has been evaluated,
\* in eval, to r: the name is bound in bind.
LetBound(r, eval, bind, visits, i, name) ==
    IF r.err # "" THEN Fail(r.st, r.err)
    ELSE LetBind([r.st EXCEPT !.h = Bind(@, bind, name, r.value)], eval, bind, visits, i + 1)

\* The first callback of letform on the pair p of visits[i].
LetPair(st, p, eval, bind, visits, i) ==
    IF p.err # "" THEN Fail(st, p.err)
    ELSE IF Kind(p.lhs) # "sym" THEN Fail(st, "expected symbol")
    ELSE LetBound(Eval(st, eval, p.rhs), eval, bind, visits, i, p.lhs[2])

\* The first callback of letform, applied to visits[i..].
LetBind(st, eval, bind, visits, i) ==
    IF i > Len(visits) THEN Ok(st, Nil)
    ELSE LetPair(st, Pair(visits[i]), eval, bind, visits, i)

\* The second callback of letform once visits[i] has been evaluated to r.
LetBodyForm(r, bind, visits, i) ==
    IF r.err # "" THEN Fail(r.st, r.err)
    ELSE LetBody(r.st, bind, visits, i + 1, r.value)

\* The second callback of letform, applied to visits[i..].
LetBody(st, bind, visits, i, result) ==
    IF i > Len(visits) THEN Ok(st, result)
    ELSE LetBodyForm(Eval(st, bind, visits[i]), bind, visits, i)

\* The end of letform: b the outcome of the body, werr whether skim.Walk
\* itself failed on form.Cdr.
LetWalked(b, werr) ==
    IF b.err # "" THEN Fail(b.st, b.err)
    ELSE IF werr THEN Fail(b.st, "walk")
    ELSE Ok(b.st, b.value)

\* letform once the bindings have been walked with the outcome b.
LetBindingsWalked(b, werr, bind, body) ==
    IF b.err # "" THEN Fail(b.st, b.err)
    ELSE IF werr THEN Fail(b.st, "walk")
    ELSE LetWalked(LetBody(b.st, bind, Walk(body).visits, 1, Nil), Walk(body).err)

\* builtins.letform; form.Car of a nil form is a nil dereference.
letform(st, eval, bind, form) ==
    IF form = Nil THEN Panic(st, "nilderef")
    ELSE LetBindingsWalked(LetBind(st, eval, bind, Walk(CarOf(form)).visits, 1),
                           Walk(CarOf(form)).err, bind, CdrOf(form))

\* A let that binds in the context it is evaluated in.
LetInPlace(st, ctx, form) == letform(st, ctx, ctx, form)

\* builtins.Let
Let(st, ctx, form) == letform([st EXCEPT !.h = Fork(@, ctx)], ctx, Len(st.h) + 1, form)

\* builtins.LetStar
LetStar(st, ctx, form) ==
    letform([st EXCEPT !.h = Fork(@, ctx)], Len(st.h) + 1, Len(st.h) + 1, form)

\* atoms.go:405-415 -- IsTrue: a Bool is its value, nil and the empty list
\* are false, everything else is true.
IsTrue(a) ==
    IF Kind(a) = "bool" THEN a[2]
    ELSE IF a = Nil THEN FALSE
    ELSE IF IsCons(a) THEN CarOf(a) # Nil \/ CdrOf(a) # Nil
    ELSE TRUE

\* The callback builtins.Cond hands to skim.Walk, once visits[i] has been
\* evaluated to r.
CondBodyForm(r, ctx, visits, i) ==
    IF r.err # "" THEN Fail(r.st, r.err)
    ELSE CondBody(r.st, ctx, visits, i + 1, r.value)

\* The consequent of the clause of builtins.Cond whose test held.
CondBody(st, ctx, visits, i, result) ==
    IF i > Len(visits) THEN Ok(st, result)
    ELSE CondBodyForm(Eval(st, ctx, visits[i]), ctx, visits, i)

\* builtins.go:187-191 -- the result of cond once the consequent was walked.
CondWalked(b, werr) ==
    IF b.err # "" THEN Fail(b.st, b.err)
    ELSE IF werr THEN Fail(b.st, "walk")
    ELSE Ok(b.st, b.value)

\* builtins.go:180-191 -- a clause of cond once its test has been evaluated
\* to t: a false test goes on to the rest of the clauses.
CondTested(t, ctx, conseq, rest) ==
    IF t.err # "" THEN Fail(t.st, t.err)
    ELSE IF ~IsTrue(t.value) THEN CondLoop(t.st, ctx, rest)
    ELSE CondWalked(CondBody(t.st, ctx, Walk(conseq).visits, 1, Nil), Walk(conseq).err)

\* builtins.go:163-193 -- the loop of cond over its clauses.
CondLoop(st, ctx, a) ==
    IF a = Nil THEN Ok(st, Nil)
    ELSE IF Car(a).err # "" THEN Fail(st, Car(a).err)
    ELSE IF Car(CarOf(a)).err # "" THEN Fail(st, Car(CarOf(a)).err)
    ELSE CondTested(Eval(st, ctx, CarOf(CarOf(a))), ctx, CdrOf(CarOf(a)), CdrOf(a))

\* builtins.Cond
Cond(st, ctx, form) == CondLoop(st, ctx, form)

\* The Evaler capability: a Proc or a *Lambda.
EvalerEval(st, p, ctx, argv) ==
    IF Kind(p) = "lambda" THEN LambdaEval(st, p, ctx, argv)
    ELSE IF p = Proc("let") THEN Let(st, ctx, argv)
    ELSE IF p = Proc("let*") THEN LetStar(st, ctx, argv)
    ELSE IF p = Proc("+") THEN Sum(st, ctx, argv)
    ELSE IF p = Proc("cond") THEN Cond(st, ctx, argv)
    ELSE IF p = Proc("setq") THEN SetQuoted(st, ctx, argv)
    ELSE IF p = Proc("quote") THEN QuoteFn(st, ctx, argv)
    ELSE IF p = Proc("modulo") THEN Mod(st, ctx, argv)
    ELSE Fail(st, "nilproc")

(***************************************************************************)
(* Closure construction                                                    *)
(***************************************************************************)
NewLambda(ctx, args, body) ==
    IF body = Nil THEN [value |-> Nil, err |-> "nobody"]
    ELSE [value |-> LambdaAtom(ctx, args, SkimDup(body)), err |-> ""]

\* The loop of newLambda over the argument vector.  syms is made empty and
\* nothing is ever added to it.
RECURSIVE newLambdaArgs(_, _, _, _)
newLambdaArgs(args, i, syms, argsym) ==
    IF i > Len(args) THEN [argsym |-> argsym, err |-> "", symbols |-> TRUE]
    ELSE IF Kind(args[i]) = "sym"
         THEN IF args[i][2] \in syms
              THEN [argsym |-> <<>>, err |-> "dup", symbols |-> TRUE]
              ELSE newLambdaArgs(args, i + 1, syms, Append(argsym, args[i][2]))
         ELSE [argsym |-> <<>>, err |-> "", symbols |-> FALSE]

newLambda(ctx, form) ==
    IF form = Nil THEN [value |-> Nil, err |-> "form"]
    ELSE IF Kind(CarOf(form)) # "vec" THEN NewLambda(ctx, <<>>, form)
    ELSE IF ~IsCons(CdrOf(form)) THEN [value |-> Nil, err |-> "bodylist"]
    ELSE LET a == newLambdaArgs(CarOf(form)[2], 1, {}, <<>>)
         IN  IF a.err # "" THEN [value |-> Nil, err |-> a.err]
             ELSE IF a.symbols THEN NewLambda(ctx, a.argsym, CdrOf(form))
             ELSE NewLambda(ctx, <<>>, form)

(***************************************************************************)
(* Inputs of closure construction and invocation.                          *)
(***************************************************************************)
SetqY == List(<<Sym("setq"), Sym("y"), Integer(2)>>)

ParamLists == {<<>>, <<"p">>, <<"p", "x">>}

Bodies ==
    {List(<<Sym("x")>>), List(<<Sym("y"), Sym("p")>>), List(<<Sym("x"), Nil>>),
     List(<<SetqY, Sym("y")>>)}

LambdaForms ==
    {Cons(Vector(<<Sym("p"), Sym("p")>>), List(<<Sym("p")>>)),
     Cons(Vector(<<Sym("p")>>), List(<<Sym("p")>>)),
     Cons(Vector(<<Sym("p")>>), Nil),
     Cons(Vector(<<Sym("p"), Integer(1)>>), List(<<Sym("x")>>)),
     List(<<Sym("x")>>)}

ArgExprs == {Sym("x"), Sym("y"), Sym("p"), SetqY}

RECURSIVE ChainsOfLen(_)
ChainsOfLen(n) ==
    IF n = 0 THEN {Nil}
    ELSE {Cons(e, t) : e \in ArgExprs, t \in ChainsOfLen(n - 1)}

ArgChains == UNION {ChainsOfLen(n) : n \in 0..MaxArgs}

RECURSIVE ChainLen(_)
ChainLen(form) == IF form = Nil THEN 0 ELSE 1 + ChainLen(CdrOf(form))

\* The frames of the closure scenario: the root with the mutative built-ins
\* bound, the defining environment and the caller's environment.
RootCtx == 1

DefCtx == 2

CallerCtx == 3

Callers == {DefCtx, CallerCtx}

(***************************************************************************)
(* The observable outcome of the last operation.                           *)
(***************************************************************************)
\* The threads that share a context, and the state of a sync.RWMutex: the
\* thread that holds it for writing (0 for none) and those that hold it for
\* reading.
MaxThreads == 2

\* The calls that the threads make in all.
MaxCalls == 2

Threads == 1 .. MaxThreads

IdleThread == [op |-> "none", c |-> 0, i |-> 0, in |-> FALSE, bound |-> FALSE]

Unlocked == [writer |-> 0, readers |-> {}]

\* The mutexes of the frames of h, as Fork makes them.
Locks(h) == [c \in 1 .. Len(h) |-> Unlocked]

\* No thread is in a call, and the mutexes of every frame are free.
NoThreads ==
    /\ threads = [t \in Threads |-> IdleThread]
    /\ tm = Locks(heap)
    /\ um = Locks(heap)

NoOp ==
    [op |-> "none", c |-> 0, name |-> "", arg |-> 0, ok |-> FALSE, value |-> Nil, ret |-> 0,
     form |-> Nil, err |-> "", log |-> <<>>]

\* No Read is under way.
NotDecoding == [at |-> "idle", d |-> <<>>, end |-> <<>>, next |-> "nil", err |-> ""]

\* An operation is called when no outcome is pending.
Idle == last.op = "none"

Init ==
    /\ heap = NewContext(<<>>)
    /\ lam = Nil
    /\ last = NoOp
    /\ nops = 0
    /\ NoThreads
    /\ dec = NotDecoding

DoNewContext ==
    /\ Idle
    /\ Len(heap) < MaxCtx
    /\ heap' = NewContext(heap)
    /\ last' = [NoOp EXCEPT !.op = "NewContext", !.ret = Len(heap) + 1]
    /\ UNCHANGED <<lam, nops, threads, tm, um, dec>>

DoFork ==
    \E c \in Ctxs :
        /\ Idle
        /\ Len(heap) < MaxCtx
        /\ heap' = Fork(heap, c)
        /\ last' = [NoOp EXCEPT !.op = "Fork", !.c = c, !.ret = Len(heap) + 1]
        /\ UNCHANGED <<lam, nops, threads, tm, um, dec>>

\* c.Bind(name, value), which returns nothing, while fewer than limit
\* bindings have been made or removed.
Binds(limit) ==
    \E c \in Ctxs, name \in Symbols : \E value \in Values(c) :
        /\ Idle
        /\ nops < limit
        /\ heap' = Bind(heap, c, name, value)
        /\ nops' = nops + 1
        /\ UNCHANGED <<lam, last, threads, tm, um, dec>>

\* c.Unbind(name)
Unbinds(limit) ==
    \E c \in Ctxs, name \in Symbols :
        /\ Idle
        /\ nops < limit
        /\ heap' = Unbind(heap, c, name)
        /\ last' = [NoOp EXCEPT !.op = "Unbind", !.c = c, !.name = name,
                                !.ok = UnbindOk(heap, c, name)]
        /\ nops' = nops + 1
        /\ UNCHANGED <<lam, threads, tm, um, dec>>

DoBind == Binds(MaxOps)

DoUnbind == Unbinds(MaxOps)

DoResolve ==
    \E c \in Ctxs, name \in Symbols :
        /\ Idle
        /\ last' = [NoOp EXCEPT !.op = "Resolve", !.c = c, !.name = name,
                                !.ok = Resolve(heap, c, name).ok,
                                !.value = Resolve(heap, c, name).value]
        /\ UNCHANGED <<heap, lam, nops, threads, tm, um, dec>>

DoDup ==
    \E c \in Ctxs :
        /\ Idle
        /\ Len(heap) < MaxCtx
        /\ heap' = Dup(heap, c)
        /\ last' = [NoOp EXCEPT !.op = "Dup", !.c = c, !.ret = Len(heap) + 1]
        /\ UNCHANGED <<lam, nops, threads, tm, um, dec>>

DoOverlay ==
    \E c \in Ctxs, parent \in Ctxs :
        /\ Idle
        /\ Len(heap) < MaxCtx
        /\ heap' = Overlay(heap, c, parent)
        /\ last' = [NoOp EXCEPT !.op = "Overlay", !.c = c, !.arg = parent,
                                !.ret = Len(heap) + 1]
        /\ UNCHANGED <<lam, nops, threads, tm, um, dec>>

\* The caller takes the outcome; main.go does so for every top-level form.
DoReturn ==
    /\ ~Idle
    /\ last' = NoOp
    /\ UNCHANGED <<heap, lam, nops, threads, tm, um, dec>>

Next ==
    \/ DoNewContext
    \/ DoFork
    \/ DoBind
    \/ DoUnbind
    \/ DoResolve
    \/ DoDup
    \/ DoOverlay
    \/ DoReturn

Spec == Init /\ [][Next]_vars

(***************************************************************************)
(* Upvalues, over frames made by Fork, Dup and Overlay.  A frame stores a  *)
(* value of its own, so that a value read tells the frame it was stored    *)
(* on.                                                                     *)
(***************************************************************************)
UpvalueNames == {"u", "v"}

DoSetUpvalue ==
    \E c \in Ctxs, name \in UpvalueNames : \E val \in Values(c) \cup {Nil} :
        /\ Idle
        /\ nops < MaxOps
        /\ heap' = SetUpvalue(heap, c, name, val)
        /\ last' = [NoOp EXCEPT !.op = "SetUpvalue", !.c = c, !.name = name, !.value = val]
        /\ nops' = nops + 1
        /\ UNCHANGED <<lam, threads, tm, um, dec>>

DoUpvalue ==
    \E c \in Ctxs, name \in UpvalueNames :
        /\ Idle
        /\ last' = [NoOp EXCEPT !.op = "Upvalue", !.c = c, !.name = name,
                                !.value = Upvalue(heap, c, name)]
        /\ UNCHANGED <<heap, lam, nops, threads, tm, um, dec>>

NextUpvalue ==
    \/ DoFork
    \/ DoDup
    \/ DoOverlay
    \/ DoSetUpvalue
    \/ DoUpvalue
    \/ DoReturn

SpecUpvalue == Init /\ [][NextUpvalue]_vars

(***************************************************************************)
(* Threads that share a chain of two frames.  A method is the sequence of  *)
(* what it does to the mutexes and to the two maps of a frame; an access   *)
(* to a map lasts from the step that begins it to the step that ends it,   *)
(* and a write takes effect when it ends.  Resolve and Dup do their steps  *)
(* on a frame and then go up to its parent.                                *)
(***************************************************************************)
Do(do, on) == [do |-> do, on |-> on]

\* Context.Bind
BindSteps == <<Do("Lock", "tm"), Do("write", "table"), Do("Unlock", "tm")>>

\* Context.Unbind
UnbindSteps == <<Do("Lock", "tm"), Do("write", "table"), Do("Unlock", "tm")>>

\* Context.Resolve, on one frame of the chain
ResolveSteps == <<Do("RLock", "tm"), Do("read", "table"), Do("RUnlock", "tm")>>

\* Context.Upvalue
UpvalueSteps == <<Do("RLock", "um"), Do("read", "upval"), Do("RUnlock", "um")>>

\* Context.SetUpvalue
SetUpvalueSteps == <<Do("write", "upval")>>

\* Context.Dup: the upvalues of the receiver, then the table of one frame of
\* the chain
DupSteps == <<Do("read", "upval"), Do("read", "table")>>

ThreadOps == {"Bind", "Unbind", "Resolve", "Upvalue", "SetUpvalue", "Dup"}

\* The methods that take a mutex.
LockedOps == {"Bind", "Unbind", "Resolve", "Upvalue"}

Steps(op) ==
    CASE op = "Bind" -> BindSteps
      [] op = "Unbind" -> UnbindSteps
      [] op = "Resolve" -> ResolveSteps
      [] op = "Upvalue" -> UpvalueSteps
      [] op = "SetUpvalue" -> SetUpvalueSteps
      [] op = "Dup" -> DupSteps
      [] OTHER -> <<>>

\* The step at which the loop of a method over the chain starts again.
LoopStart(op) == IF op = "Dup" THEN 2 ELSE 1

\* The thread is in a call and has not done all of its steps on its frame.
Running(t) == threads[t].op # "none" /\ threads[t].i <= Len(Steps(threads[t].op))

\* What the thread does next, or is doing.
StepOf(t) == Steps(threads[t].op)[threads[t].i]

Advance(t) == [threads EXCEPT ![t].i = @ + 1, ![t].in = FALSE]

\* The thread is at a step that does do to the mutex m of its frame.
AtMutex(t, do, m) == Running(t) /\ StepOf(t) = Do(do, m)

\* The loop of Resolve goes on to the parent when the name is not bound in
\* the frame, that of Dup always, while there is a parent.
Continues(t) ==
    /\ threads[t].op \in {"Resolve", "Dup"}
    /\ heap[threads[t].c].up # 0
    /\ threads[t].op = "Resolve" => ~threads[t].bound

\* Two threads access the same map of the same frame at once, and one of
\* them writes it.
Conflict(t, u) ==
    /\ t # u
    /\ threads[t].in /\ threads[u].in
    /\ threads[t].c = threads[u].c
    /\ StepOf(t).on = StepOf(u).on
    /\ "write" \in {StepOf(t).do, StepOf(u).do}

\* What the write of a call does to the frame.
Effect(t) ==
    CASE threads[t].op = "Bind" -> Bind(heap, threads[t].c, "x", Integer(1))
      [] threads[t].op = "Unbind" -> Unbind(heap, threads[t].c, "x")
      [] threads[t].op = "SetUpvalue" -> SetUpvalue(heap, threads[t].c, "u", Integer(1))
      [] OTHER -> heap

\* The thread calls a method of ops on a frame.
Calls(t, ops) ==
    \E op \in ops, c \in Ctxs :
        /\ Idle
        /\ nops < MaxCalls
        /\ threads[t] = IdleThread
        /\ threads' = [threads EXCEPT ![t] = [IdleThread EXCEPT !.op = op, !.c = c, !.i = 1]]
        /\ nops' = nops + 1
        /\ UNCHANGED <<heap, lam, last, tm, um, dec>>

\* sync.RWMutex.Lock returns once no thread holds the mutex; only tm is ever
\* locked for writing.
LockStep(t) ==
    /\ Idle
    /\ AtMutex(t, "Lock", "tm")
    /\ tm[threads[t].c] = Unlocked
    /\ tm' = [tm EXCEPT ![threads[t].c].writer = t]
    /\ threads' = Advance(t)
    /\ UNCHANGED <<heap, lam, last, nops, um, dec>>

\* An RLock that does not wait for the writer.
RLockStepAtOnce(t) ==
    /\ Idle
    /\ \/ /\ AtMutex(t, "RLock", "tm")
          /\ tm' = [tm EXCEPT ![threads[t].c].readers = @ \cup {t}]
          /\ um' = um
       \/ /\ AtMutex(t, "RLock", "um")
          /\ um' = [um EXCEPT ![threads[t].c].readers = @ \cup {t}]
          /\ tm' = tm
    /\ threads' = Advance(t)
    /\ UNCHANGED <<heap, lam, last, nops, dec>>

\* sync.RWMutex.RLock returns once no thread holds the mutex for writing.
RLockStep(t) ==
    /\ Idle
    /\ \/ /\ AtMutex(t, "RLock", "tm")
          /\ tm[threads[t].c].writer = 0
          /\ tm' = [tm EXCEPT ![threads[t].c].readers = @ \cup {t}]
          /\ um' = um
       \/ /\ AtMutex(t, "RLock", "um")
          /\ um[threads[t].c].writer = 0
          /\ um' = [um EXCEPT ![threads[t].c].readers = @ \cup {t}]
          /\ tm' = tm
    /\ threads' = Advance(t)
    /\ UNCHANGED <<heap, lam, last, nops, dec>>

\* An Unlock that leaves the mutex held.
UnlockStepKept(t) ==
    /\ Idle
    /\ AtMutex(t, "Unlock", "tm")
    /\ threads' = Advance(t)
    /\ UNCHANGED <<heap, lam, last, nops, tm, um, dec>>

UnlockStep(t) ==
    /\ Idle
    /\ AtMutex(t, "Unlock", "tm")
    /\ tm' = [tm EXCEPT ![threads[t].c].writer = 0]
    /\ threads' = Advance(t)
    /\ UNCHANGED <<heap, lam, last, nops, um, dec>>

RUnlockStep(t) ==
    /\ Idle
    /\ \/ /\ AtMutex(t, "RUnlock", "tm")
          /\ tm' = [tm EXCEPT ![threads[t].c].readers = @ \ {t}]
          /\ um' = um
       \/ /\ AtMutex(t, "RUnlock", "um")
          /\ um' = [um EXCEPT ![threads[t].c].readers = @ \ {t}]
          /\ tm' = tm
    /\ threads' = Advance(t)
    /\ UNCHANGED <<heap, lam, last, nops, dec>>

\* The thread starts to read or to write a map.
BeginStep(t) ==
    /\ Idle
    /\ Running(t)
    /\ StepOf(t).do \in {"read", "write"}
    /\ ~threads[t].in
    /\ threads' = [threads EXCEPT ![t].in = TRUE]
    /\ UNCHANGED <<heap, lam, last, nops, tm, um, dec>>

\* The access ends: a write has taken effect, and a Resolve knows whether
\* the frame binds the name.
EndStep(t) ==
    /\ Idle
    /\ threads[t].in
    /\ heap' = IF StepOf(t).do = "write" THEN Effect(t) ELSE heap
    /\ threads' = [Advance(t) EXCEPT ![t].bound = "x" \in DOMAIN heap[threads[t].c].table]
    /\ UNCHANGED <<lam, last, nops, tm, um, dec>>

\* c = c.up
UpStep(t) ==
    /\ Idle
    /\ threads[t].op # "none"
    /\ ~Running(t)
    /\ Continues(t)
    /\ threads' = [threads EXCEPT ![t].c = heap[@].up, ![t].i = LoopStart(threads[t].op)]
    /\ UNCHANGED <<heap, lam, last, nops, tm, um, dec>>

ReturnStep(t) ==
    /\ Idle
    /\ threads[t].op # "none"
    /\ ~Running(t)
    /\ ~Continues(t)
    /\ threads' = [threads EXCEPT ![t] = IdleThread]
    /\ UNCHANGED <<heap, lam, last, nops, tm, um, dec>>

ThreadCall == \E t \in Threads : Calls(t, ThreadOps)

ThreadLock == \E t \in Threads : LockStep(t)

ThreadRLock == \E t \in Threads : RLockStep(t)

ThreadUnlock == \E t \in Threads : UnlockStep(t)

ThreadRUnlock == \E t \in Threads : RUnlockStep(t)

ThreadBegin == \E t \in Threads : BeginStep(t)

ThreadEnd == \E t \in Threads : EndStep(t)

ThreadUp == \E t \in Threads : UpStep(t)

ThreadReturn == \E t \in Threads : ReturnStep(t)

\* A map that is written while another thread reads or writes it: the
\* runtime may stop the process with a fatal error.
ThreadFault ==
    \E t \in Threads, u \in Threads :
        /\ Idle
        /\ Conflict(t, u)
        /\ last' = [NoOp EXCEPT !.op = "fatal", !.err = "concurrent map access"]
        /\ UNCHANGED <<heap, lam, nops, threads, tm, um, dec>>

\* A context and a fork of it.
InitThreads ==
    /\ heap = Fork(NewContext(<<>>), RootCtx)
    /\ lam = Nil
    /\ last = NoOp
    /\ nops = 0
    /\ NoThreads
    /\ dec = NotDecoding

NextThreads ==
    \/ ThreadCall
    \/ ThreadLock
    \/ ThreadRLock
    \/ ThreadUnlock
    \/ ThreadRUnlock
    \/ ThreadBegin
    \/ ThreadEnd
    \/ ThreadUp
    \/ ThreadFault
    \/ ThreadReturn

SpecThreads == InitThreads /\ [][NextThreads]_vars

(***************************************************************************)
(* The threads that call only the methods that take a mutex.  The          *)
(* scheduler runs a thread whenever some thread can take a step.           *)
(***************************************************************************)
ThreadCallLocked == \E t \in Threads : Calls(t, LockedOps)

\* A step of the thread within a call.
Proceeds(t) ==
    \/ LockStep(t)
    \/ RLockStep(t)
    \/ UnlockStep(t)
    \/ RUnlockStep(t)
    \/ BeginStep(t)
    \/ EndStep(t)
    \/ UpStep(t)
    \/ ReturnStep(t)

NextLocks ==
    \/ ThreadCallLocked
    \/ ThreadLock
    \/ ThreadRLock
    \/ ThreadUnlock
    \/ ThreadRUnlock
    \/ ThreadBegin
    \/ ThreadEnd
    \/ ThreadUp
    \/ ThreadReturn

Scheduling == WF_vars(\E t \in Threads : Proceeds(t))

SpecLocks == InitThreads /\ [][NextLocks]_vars /\ Scheduling


(***************************************************************************)
(* skim: Walk with a visit that may fail.  The visit fails on its k-th     *)
(* call; k = 0 is a visit that never fails.                                *)
(***************************************************************************)
Later(k) == IF k = 0 THEN 0 ELSE k - 1

\* atoms.go:645-652 -- the elements of a vector, up to the failing visit.
WalkVector(vec, k) ==
    IF k \in 1 .. Len(vec)
    THEN [visits |-> SubSeq(vec, 1, k), err |-> "visit"]
    ELSE [visits |-> vec, err |-> ""]

\* atoms.go:654-671 -- the loop over the cells of a chain.
RECURSIVE WalkList(_, _)
WalkList(a, k) ==
    IF a = Nil THEN [visits |-> <<>>, err |-> ""]
    ELSE IF ~IsCons(a) THEN [visits |-> <<>>, err |-> "skim: cannot walk"]
    ELSE IF CarOf(a) = Nil /\ CdrOf(a) = Nil THEN [visits |-> <<>>, err |-> ""]
    ELSE IF k = 1 THEN [visits |-> <<CarOf(a)>>, err |-> "visit"]
    ELSE LET r == WalkList(CdrOf(a), Later(k))
         IN  [visits |-> <<CarOf(a)>> \o r.visits, err |-> r.err]

WalkVisit(a, k) == IF Kind(a) = "vec" THEN WalkVector(a[2], k) ELSE WalkList(a, k)

\* A chain of cells over args that ends in tail.
RECURSIVE Cells(_, _)
Cells(args, tail) ==
    IF Len(args) = 0 THEN tail ELSE Cons(args[1], Cells(Tail(args), tail))

Elements == {Nil, Integer(1), Sym("a")}

ElementSeqs == UNION {[1 .. n -> Elements] : n \in 0 .. MaxArgs}

Containers == {"list", "vector", "improper", "absent"}

\* The container of a kind over args; an improper chain has one cell at least,
\* and the absent container is the nil atom.
Container(kind, args) ==
    CASE kind = "list" -> List(args)
      [] kind = "vector" -> Vector(args)
      [] kind = "absent" -> Nil
      [] OTHER -> Cells(args, Integer(1))

\* The containers that there are over args.
Built(kind, args) ==
    /\ kind = "improper" => Len(args) > 0
    /\ kind = "absent" => Len(args) = 0

Walked(kind, args, k, r) ==
    [NoOp EXCEPT !.op = "Walk", !.name = kind, !.form = Container(kind, args),
                 !.value = Vector(args), !.arg = k, !.log = r.visits, !.err = r.err]

DoWalk ==
    \E kind \in Containers, args \in ElementSeqs, k \in 0 .. MaxArgs :
        /\ Idle
        /\ Built(kind, args)
        /\ last' = Walked(kind, args, k, WalkVisit(Container(kind, args), k))
        /\ UNCHANGED <<heap, lam, nops, threads, tm, um, dec>>

(***************************************************************************)
(* skim: Map.  A function mapped is the identity or one that wraps its     *)
(* argument in a vector, and it fails on its failsAt-th call (0: never);   *)
(* "nil" is the nil MapFunc.                                               *)
(***************************************************************************)
MapFuncNames == {"identity", "wrap", "nil"}

MapFuncs == [name : MapFuncNames, failsAt : 0 .. MaxArgs]

\* What fn returns for a when it does not fail.
MapFunc(fn, a) == IF fn.name = "wrap" THEN Vector(<<a>>) ELSE a

\* A map that goes on to the last element after an error of fn.
MapEachToTheEnd(pkg, fn, seq) ==
    IF Len(seq) > 0 /\ fn.name = "nil"
    THEN [values |-> <<>>, err |-> pkg \o ": MapFunc is nil", calls |-> 0]
    ELSE IF fn.failsAt \in 1 .. Len(seq)
    THEN [values |-> <<>>, err |-> "fn", calls |-> Len(seq)]
    ELSE [values |-> [i \in 1 .. Len(seq) |-> MapFunc(fn, seq[i])], err |-> "",
          calls |-> Len(seq)]

\* MapFunc.Map over a sequence of elements, up to its first error: the
\* values, the error, and how many times fn was invoked.  pkg is the
\* package of the MapFunc type, which the error of a nil MapFunc names.
MapEach(pkg, fn, seq) ==
    IF Len(seq) > 0 /\ fn.name = "nil"
    THEN [values |-> <<>>, err |-> pkg \o ": MapFunc is nil", calls |-> 0]
    ELSE IF fn.failsAt \in 1 .. Len(seq)
    THEN [values |-> <<>>, err |-> "fn", calls |-> fn.failsAt]
    ELSE [values |-> [i \in 1 .. Len(seq) |-> MapFunc(fn, seq[i])], err |-> "",
          calls |-> Len(seq)]

NotMapped(err) == [value |-> Nil, err |-> err, calls |-> 0]

\* atoms.go:503-513 -- the cars of the cells that Cons.Map counts, and
\* whether the count ends on a Cdr that is not a cell.
RECURSIVE CountedCars(_)
CountedCars(c) ==
    IF CdrOf(c) = Nil THEN [cars |-> <<CarOf(c)>>, err |-> ""]
    ELSE IF ~IsCons(CdrOf(c)) THEN [cars |-> <<>>, err |-> "skim: map: cannot map a list"]
    ELSE LET r == CountedCars(CdrOf(c))
         IN  [cars |-> <<CarOf(c)>> \o r.cars, err |-> r.err]

ConsMapped(counted, mapped) ==
    IF counted.err # "" THEN NotMapped(counted.err)
    ELSE IF mapped.err # "" THEN [value |-> Nil, err |-> mapped.err, calls |-> mapped.calls]
    ELSE [value |-> Cells(mapped.values, Nil), err |-> "", calls |-> mapped.calls]

\* Cons.Map
ConsMap(c, fn) ==
    IF c = Nil THEN NotMapped("")
    ELSE ConsMapped(CountedCars(c), MapEach("skim", fn, CountedCars(c).cars))

VectorMapped(mapped) ==
    IF mapped.err # "" THEN [value |-> Nil, err |-> mapped.err, calls |-> mapped.calls]
    ELSE [value |-> Vector(mapped.values), err |-> "", calls |-> mapped.calls]

\* Vector.Map
VectorMap(v, fn) == VectorMapped(MapEach("skim", fn, v[2]))

\* skim.Map
Map(list, fn) ==
    IF list = Nil THEN NotMapped("")
    ELSE IF Kind(list) = "vec" THEN VectorMap(list, fn)
    ELSE IF IsCons(list) THEN ConsMap(list, fn)
    ELSE NotMapped("skim: cannot map")

\* The end of builtins.Map: an error of the walk or of mapfn, and the
\* assertion root.(*skim.Cons), which panics when nothing was mapped.
BuiltinsMapped(walked, mapped) ==
    IF mapped.err # "" THEN [value |-> Nil, err |-> mapped.err, calls |-> mapped.calls]
    ELSE IF walked.err # "" THEN [value |-> Nil, err |-> walked.err, calls |-> mapped.calls]
    ELSE IF mapped.values = <<>>
    THEN [value |-> Nil, err |-> "panic: interface conversion", calls |-> 0]
    ELSE [value |-> Cells(mapped.values, Nil), err |-> "", calls |-> mapped.calls]

\* builtins.Map
BuiltinsMap(list, fn) ==
    IF list = Nil THEN NotMapped("")
    ELSE BuiltinsMapped(WalkList(list, 0), MapEach("map", fn, WalkList(list, 0).visits))

MapReturned(op, kind, args, fn, r) ==
    [NoOp EXCEPT !.op = op, !.name = fn.name, !.arg = fn.failsAt, !.ret = r.calls,
                 !.form = Container(kind, args),
                 !.log = args, !.value = r.value, !.err = r.err]

DoMap ==
    \E kind \in Containers, args \in ElementSeqs, fn \in MapFuncs :
        /\ Idle
        /\ Built(kind, args)
        /\ last' = MapReturned("Map", kind, args, fn, Map(Container(kind, args), fn))
        /\ UNCHANGED <<heap, lam, nops, threads, tm, um, dec>>

\* builtins.Map takes a *skim.Cons.
DoBuiltinsMap ==
    \E kind \in Containers \ {"vector"}, args \in ElementSeqs, fn \in MapFuncs :
        /\ Idle
        /\ Built(kind, args)
        /\ last' = MapReturned("builtins.Map", kind, args, fn,
                               BuiltinsMap(Container(kind, args), fn))
        /\ UNCHANGED <<heap, lam, nops, threads, tm, um, dec>>

(***************************************************************************)
(* skim: the accessors.  An accessor is the sequence of its letters, as in *)
(* its name: Caddr is <<"a", "d", "d">>.                                   *)
(***************************************************************************)
Letters == {"a", "d"}

\* Cddddr: an accessor has four letters at most.
MaxLetters == 4

Accessors == UNION {[1 .. n -> Letters] : n \in 1 .. MaxLetters}

\* The chains of TestCadr, on smaller integers, and atoms that are no cells.
Seq5 == List(<<Integer(1), Integer(2), Integer(3), Integer(4), Integer(5)>>)

NestL1 == List(<<List(<<Integer(1)>>), List(<<Integer(2)>>), List(<<Integer(3)>>)>>)

NestR1 == Cons(List(<<Integer(1), Integer(2), Integer(3)>>), Integer(5))

Accessed ==
    {Seq5, NestL1, NestR1, Cons(Integer(1), Integer(2)), Integer(1), Nil, Sym("a"),
     Vector(<<Integer(1)>>), Cons(Cons(Sym("a"), Nil), Cons(Vector(<<>>), Integer(2)))}

\* Car, Cdr, and Caar to Cddddr.
Accessor(seq, a) ==
    IF seq = <<"a">> THEN Car(a)
    ELSE IF seq = <<"d">> THEN Cdr(a)
    ELSE cadr(a, seq)

AccessorReturned(seq, a, r) ==
    [NoOp EXCEPT !.op = "cadr", !.form = a, !.log = seq, !.value = r.value, !.err = r.err]

DoAccessor ==
    \E seq \in Accessors, a \in Accessed :
        /\ Idle
        /\ last' = AccessorReturned(seq, a, Accessor(seq, a))
        /\ UNCHANGED <<heap, lam, nops, threads, tm, um, dec>>

NextSkim ==
    \/ DoWalk
    \/ DoAccessor
    \/ DoMap
    \/ DoBuiltinsMap
    \/ DoReturn

SpecSkim == Init /\ [][NextSkim]_vars

(***************************************************************************)
(* Closures: construction and invocation over a root frame with setq       *)
(* bound, a defining environment and a caller's environment.               *)
(***************************************************************************)
InitLambda ==
    /\ heap = Fork(Fork(Bind(NewContext(<<>>), RootCtx, "setq", Proc("setq")), RootCtx), RootCtx)
    /\ lam = Nil
    /\ last = NoOp
    /\ nops = 0
    /\ NoThreads
    /\ dec = NotDecoding

DoLambdaBind == Binds(MaxLamOps)

DoLambdaUnbind == Unbinds(MaxLamOps)

DoNewLambda ==
    \E args \in ParamLists, body \in Bodies \cup {Nil} :
        LET r == NewLambda(DefCtx, args, body)
        IN  /\ Idle
            /\ lam' = IF r.err = "" THEN r.value ELSE lam
            /\ last' = [NoOp EXCEPT !.op = "NewLambda", !.c = DefCtx, !.form = body,
                                    !.value = r.value, !.err = r.err]
            /\ UNCHANGED <<heap, nops, threads, tm, um, dec>>

DoNewLambdaForm ==
    \E form \in LambdaForms \cup {Nil} :
        LET r == newLambda(DefCtx, form)
        IN  /\ Idle
            /\ lam' = IF r.err = "" THEN r.value ELSE lam
            /\ last' = [NoOp EXCEPT !.op = "newLambda", !.c = DefCtx, !.form = form,
                                    !.value = r.value, !.err = r.err]
            /\ UNCHANGED <<heap, nops, threads, tm, um, dec>>

\* l.Eval(ctx, form).  The frames the invocation allocates are unreachable
\* once it returns and are dropped from the heap.
DoLambdaEval ==
    \E ctx \in Callers, form \in ArgChains :
        /\ Idle
        /\ lam # Nil
        /\ LET r == LambdaEval([h |-> heap, log |-> <<>>], lam, ctx, form)
           IN  /\ heap' = SubSeq(r.st.h, 1, Len(heap))
               /\ last' = [NoOp EXCEPT !.op = "LambdaEval", !.c = ctx, !.form = form,
                                       !.value = r.value, !.err = r.err, !.log = r.st.log]
        /\ UNCHANGED <<lam, nops, threads, tm, um, dec>>

NextLambda ==
    \/ DoLambdaBind
    \/ DoLambdaUnbind
    \/ DoNewLambda
    \/ DoNewLambdaForm
    \/ DoLambdaEval
    \/ DoReturn

SpecLambda == InitLambda /\ [][NextLambda]_vars

(***************************************************************************)
(* Evaluation of forms: a root frame with quote, setq and modulo bound,    *)
(* and a child of it.                                                      *)
(***************************************************************************)
Quoted(a) == Cons(Sym("quote"), Cons(a, Nil))

SetqX == List(<<Sym("setq"), Sym("x"), Integer(1)>>)

ModZero == List(<<Sym("modulo"), Integer(1), Integer(0)>>)

\* What the reader makes of "()": the cell scope.cons allocates for a
\* list without elements.
EmptyList == Cons(Nil, Nil)

AtomForms == {Nil, EmptyList, Integer(1), Sym("x"), Sym("y"), Proc("quote")}

QuoteForms ==
    {Quoted(Sym("x")), Quoted(SetqX), Quoted(ModZero),
     Quoted(List(<<Integer(1), Integer(2)>>)), Cons(Sym("quote"), Nil)}

\* (quote . 1), (quote 1 . 2) and (setq x 1 . 2)
DottedForms ==
    {Cons(Sym("quote"), Integer(1)),
     Cons(Sym("quote"), Cons(Integer(1), Integer(2))),
     Cons(Sym("setq"), Cons(Sym("x"), Cons(Integer(1), Integer(2))))}

HeadForms ==
    {List(<<Integer(1), Sym("x")>>),
     List(<<Sym("x"), SetqX>>),
     List(<<Proc("quote"), Sym("x")>>),
     List(<<Quoted(Integer(1)), SetqX>>),
     List(<<List(<<Sym("setq"), Sym("y"), Sym("quote")>>), Sym("x")>>),
     List(<<List(<<Sym("x")>>), SetqX>>)}

FaultForms ==
    {ModZero,
     List(<<Sym("modulo"), Integer(1), Integer(2)>>),
     List(<<Sym("setq"), Sym("x"), ModZero>>),
     List(<<Sym("modulo"), SetqX, Integer(0)>>),
     List(<<Sym("modulo"), EmptyList>>)}

EvalForms == AtomForms \cup QuoteForms \cup DottedForms \cup HeadForms \cup FaultForms \cup {SetqX}

InitEval ==
    /\ heap = Fork(Bind(Bind(Bind(NewContext(<<>>), RootCtx, "setq", Proc("setq")),
                             RootCtx, "quote", Proc("quote")),
                        RootCtx, "modulo", Proc("modulo")), RootCtx)
    /\ lam = Nil
    /\ last = NoOp
    /\ nops = 0
    /\ NoThreads
    /\ dec = NotDecoding

\* c.Eval(form), as main.go calls it for a form that was read; ok tells
\* that the call returned rather than panicked.
DoEval ==
    \E ctx \in Ctxs, form \in EvalForms :
        /\ Idle
        /\ LET r == Eval([h |-> heap, log |-> <<>>], ctx, form)
           IN  /\ heap' = SubSeq(r.st.h, 1, Len(heap))
               /\ last' = [NoOp EXCEPT !.op = "Eval", !.c = ctx, !.form = form,
                                       !.ok = ~Panicked(r), !.value = r.value,
                                       !.err = r.err, !.log = r.st.log]
        /\ UNCHANGED <<lam, nops, threads, tm, um, dec>>

NextEval ==
    \/ DoBind
    \/ DoUnbind
    \/ DoEval
    \/ DoReturn

SpecEval == InitEval /\ [][NextEval]_vars

(***************************************************************************)
(* let and let*: a root frame with let, let*, setq and + bound, and a      *)
(* child of it.                                                            *)
(***************************************************************************)
LetOf(head, bindings, body) == Cons(Sym(head), Cons(List(bindings), List(body)))

Binding(name, init) == List(<<Sym(name), init>>)

PlusOne(name) == List(<<Sym("+"), Sym(name), Integer(1)>>)

Initialisers ==
    {Integer(1), Sym("y"), SetqX, List(<<Sym("setq"), Sym("y"), Integer(2)>>), PlusOne("x")}

LetBodies ==
    {<<PlusOne("x")>>, <<Sym("x")>>, <<List(<<Sym("setq"), Sym("x"), Integer(2)>>), Sym("x")>>,
     <<Sym("z")>>, <<List(<<Sym("setq"), Sym("y"), Sym("x")>>)>>}

LetBindings ==
    {<<Binding("x", i)>> : i \in Initialisers}
        \cup {<<Binding("x", Integer(1)), Binding("y", i)>> : i \in {Sym("x"), PlusOne("x")}}
        \cup {<<Integer(1)>>, <<List(<<Integer(1), Integer(1)>>)>>}

LetForms ==
    {LetOf(head, b, body) : head \in {"let", "let*"}, b \in LetBindings, body \in LetBodies}
        \cup {List(<<Sym("let")>>), List(<<Sym("let*")>>)}

InitLet ==
    /\ heap = Fork(Bind(Bind(Bind(Bind(NewContext(<<>>), RootCtx, "setq", Proc("setq")),
                                  RootCtx, "let", Proc("let")),
                             RootCtx, "let*", Proc("let*")),
                        RootCtx, "+", Proc("+")), RootCtx)
    /\ lam = Nil
    /\ last = NoOp
    /\ nops = 0
    /\ NoThreads
    /\ dec = NotDecoding

\* c.Eval(form) of a let form; the frames the evaluation made are no longer
\* reachable when it returns.
LetEvaluated(ctx, form, r) ==
    /\ heap' = SubSeq(r.st.h, 1, Len(heap))
    /\ last' = [NoOp EXCEPT !.op = "Eval", !.c = ctx, !.form = form,
                            !.ok = ~Panicked(r), !.value = r.value, !.err = r.err]

DoLetEval ==
    \E ctx \in Ctxs, form \in LetForms :
        /\ Idle
        /\ LetEvaluated(ctx, form, Eval([h |-> heap, log |-> <<>>], ctx, form))
        /\ UNCHANGED <<lam, nops, threads, tm, um, dec>>

DoLetBind == Binds(MaxLamOps)

DoLetUnbind == Unbinds(MaxLamOps)

NextLet ==
    \/ DoLetBind
    \/ DoLetUnbind
    \/ DoLetEval
    \/ DoReturn

SpecLet == InitLet /\ [][NextLet]_vars

(***************************************************************************)
(* Recursive invocation: a closure bound to f in its defining context, its *)
(* body invoking f again from inside a cond.                               *)
(***************************************************************************)
\* (cond (p (f #nil)))
Recurse == List(<<Sym("cond"), List(<<Sym("p"), List(<<Sym("f"), Nil>>)>>)>>)

\* (cond (p (f #nil)) (1 (setq y 2)))
RecurseOrSet ==
    List(<<Sym("cond"), List(<<Sym("p"), List(<<Sym("f"), Nil>>)>>),
           List(<<Integer(1), SetqY>>)>>)

SetqYP == List(<<Sym("setq"), Sym("y"), Sym("p")>>)

RecursiveBodies ==
    {List(<<SetqYP, Recurse, Sym("y")>>), List(<<Recurse, SetqY, Sym("y")>>),
     List(<<RecurseOrSet, Sym("y")>>)}

CallForms ==
    {List(<<Sym("f"), a>>) : a \in {Integer(1), Nil, Sym("x")}} \cup {List(<<Sym("f")>>)}

InitCall ==
    /\ heap = Fork(Fork(Bind(Bind(NewContext(<<>>), RootCtx, "setq", Proc("setq")),
                             RootCtx, "cond", Proc("cond")), RootCtx), RootCtx)
    /\ lam = Nil
    /\ last = NoOp
    /\ nops = 0
    /\ NoThreads
    /\ dec = NotDecoding

DoCallBind == Binds(MaxLamOps)

DoCallUnbind == Unbinds(MaxLamOps)

\* ctx.Bind("f", l) with l, err := NewLambda(ctx, args, body)
DoDefine ==
    \E body \in RecursiveBodies :
        LET r == NewLambda(DefCtx, <<"p">>, body)
        IN  /\ Idle
            /\ lam = Nil
            /\ heap' = Bind(heap, DefCtx, "f", r.value)
            /\ lam' = r.value
            /\ last' = [NoOp EXCEPT !.op = "Define", !.c = DefCtx, !.form = body,
                                    !.value = r.value, !.err = r.err]
            /\ UNCHANGED <<nops, threads, tm, um, dec>>

\* ctx.Eval(form) of a call of f.  The frames the evaluation allocates are
\* unreachable once it returns and are dropped from the heap.
DoInvoke ==
    \E ctx \in Callers, form \in CallForms :
        /\ Idle
        /\ LET r == Eval([h |-> heap, log |-> <<>>], ctx, form)
           IN  /\ heap' = SubSeq(r.st.h, 1, Len(heap))
               /\ last' = [NoOp EXCEPT !.op = "Invoke", !.c = ctx, !.form = form,
                                       !.value = r.value, !.err = r.err, !.log = r.st.log]
        /\ UNCHANGED <<lam, nops, threads, tm, um, dec>>

NextCall ==
    \/ DoCallBind
    \/ DoCallUnbind
    \/ DoDefine
    \/ DoInvoke
    \/ DoReturn

SpecCall == InitCall /\ [][NextCall]_vars

(***************************************************************************)
(* The reader (parser.Read).  A decoder is a record: the input not yet     *)
(* read and how the stream delivers it, d.err, d.current, the scopes from  *)
(* d.root to d.last, the buffer, and a record of the closers dispatched.   *)
(* The inputs have no backslash, digit or '#', so the escapes of           *)
(* readString and the number and literal branches of readSymbol are left   *)
(* out.                                                                    *)
(***************************************************************************)
Str(s) == <<"str", s>>

Bool(b) == <<"bool", b>>

\* The text of a buffer of runes.
RECURSIVE Join(_)
Join(runes) == IF runes = <<>> THEN "" ELSE Head(runes) \o Join(Tail(runes))

\* The zero rune.
NUL == ""

Spaces == {" ", "\n"}

\* The backquote rune, which a string of this notation cannot hold.
rBacktick == "BACKTICK"

sentinelRunes == {"(", ")", "[", "]", "'", "\"", ",", rBacktick, ";"}

isSymbolic == Spaces \cup sentinelRunes

\* strings.NewReader, iotest.OneByteReader, and a stream that hands over
\* its final byte together with io.EOF (iotest.DataErrReader).
Deliveries == {"string", "onebyte", "dataerr"}

\* d.readrune or readrune(d.rd): the fallback returns Read's error before
\* it looks at the byte that came with it.
readrune(input, mode) ==
    IF input = <<>> THEN [r |-> NUL, rest |-> <<>>, err |-> "EOF"]
    ELSE IF mode = "dataerr" /\ Len(input) = 1
         THEN [r |-> NUL, rest |-> <<>>, err |-> "EOF"]
         ELSE [r |-> Head(input), rest |-> Tail(input), err |-> ""]

\* decoder.nextRune; the error it returns is d.err afterwards.
nextRune(d) ==
    IF d.err # "" THEN d
    ELSE LET rr == readrune(d.input, d.mode)
         IN  [d EXCEPT !.current = rr.r, !.input = rr.rest, !.err = rr.err]

skip(d) == nextRune(d)

RECURSIVE readUntilBuffer(_, _)

\* The loop of readUntilBuffer once nextRune has been called.
readUntilNext(d, oneof) ==
    IF d.err # "" THEN d
    ELSE IF d.current \in oneof THEN d
    ELSE readUntilBuffer([d EXCEPT !.buffer = Append(@, d.current)], oneof)

\* decoder.readUntilBuffer: r, _, err = d.nextRune(), then the rest of the turn
\* on its outcome x.
readUntilBuffer(d, oneof) ==
    CHOOSE r \in {readUntilNext(x, oneof) : x \in {nextRune(d)}} : TRUE

RECURSIVE skipSpaceLoop(_)
skipSpaceLoop(d) ==
    IF d.err # "" THEN d
    ELSE IF d.current \notin Spaces THEN d
    ELSE skipSpaceLoop(nextRune(d))

\* decoder.skipSpace(true)
skipSpace(d) == IF d.current \notin Spaces THEN d ELSE skipSpaceLoop(nextRune(d))

(***************************************************************************)
(* scope                                                                   *)
(***************************************************************************)
newScope(open) == [open |-> open, head |-> Nil]

RECURSIVE AppendChain(_, _)
AppendChain(head, tip) ==
    IF head = Nil THEN Cons(tip, Nil)
    ELSE Cons(CarOf(head), AppendChain(CdrOf(head), tip))

\* scope.append
append(s, tip) ==
    IF Kind(s.head) = "vec" THEN [s EXCEPT !.head = Vector(Append(s.head[2], tip))]
    ELSE [s EXCEPT !.head = AppendChain(s.head, tip)]

\* scope.cons
cons(s) == IF s.head = Nil THEN EmptyList ELSE s.head

Last(d) == d.scopes[Len(d.scopes)]

\* d.last.append(a)
appendLast(d, a) == [d EXCEPT !.scopes[Len(d.scopes)] = append(@, a)]

\* decoder.push
push(d, open) == [d EXCEPT !.scopes = Append(@, newScope(open))]

\* One turn of the loop of seal: d.last.up.append(d.last.cons()), then
\* d.last = d.last.up.
sealOne(d) ==
    LET n == Len(d.scopes)
    IN  [d EXCEPT !.scopes = Append(SubSeq(@, 1, n - 2), append(@[n - 1], cons(@[n])))]

\* decoder.seal
RECURSIVE seal(_, _)
seal(d, force) ==
    IF force \/ (Len(d.scopes) > 1 /\ ~Last(d).open) THEN seal(sealOne(d), FALSE)
    ELSE d

(***************************************************************************)
(* The parsing functions.  Each returns the decoder, the next function     *)
(* ("nil" for none) and the error ("" for none).                           *)
(***************************************************************************)
Then(d, next, err) == [d |-> d, next |-> next, err |-> err]

\* UnclosedError of the rune left open.
UnclosedError(r) == "unclosed " \o r

BadCharError(r) == "bad character " \o r

ErrUnquoteContext == "use of unquote outside of quasiquote context"

\* decoder.close
close(d) ==
    IF Len(d.scopes) = 1 THEN Then(d, "nil", "cannot close current scope")
    ELSE Then(seal(d, TRUE), "readSyntax", "")

\* decoder.assign
assign(d, a) == Then(seal(appendLast(d, a), FALSE), "readSyntax", "")

\* What the innermost scope is when a closer is met.
ScopeKind(d) ==
    IF Len(d.scopes) = 1 THEN "root"
    ELSE IF ~Last(d).open THEN "quote"
    ELSE IF Kind(Last(d).head) = "vec" THEN "vector" ELSE "list"

\* The record of the closers dispatched.
Closing(d, r) == [d EXCEPT !.closes = Append(@, [rune |-> r, scope |-> ScopeKind(d)])]

\* The rest of closeList and closeVector: skip, where EOF is no error,
\* then close.
closeSkipped(d) == close(skip(d))

closeVectorUnchecked(d) == closeSkipped(Closing(d, "]"))

\* decoder.closeVector
closeVector(d) ==
    IF Kind(Last(d).head) # "vec" \/ ~Last(d).open
    THEN Then(Closing(d, "]"), "nil", BadCharError("]"))
    ELSE closeSkipped(Closing(d, "]"))

\* decoder.closeList
closeList(d) ==
    IF (Kind(Last(d).head) # "cons" /\ Last(d).head # Nil) \/ ~Last(d).open
    THEN Then(Closing(d, ")"), "nil", BadCharError(")"))
    ELSE closeSkipped(Closing(d, ")"))

\* "return d.readSyntax, d.skip()"
SyntaxAfterSkip(d) == Then(d, "readSyntax", d.err)

\* decoder.readList
readList(d) == SyntaxAfterSkip(skip(push(d, TRUE)))

\* decoder.readVector
readVector(d) ==
    SyntaxAfterSkip(skip([push(d, TRUE) EXCEPT !.scopes[Len(d.scopes) + 1].head = Vector(<<>>)]))

\* The symbol of a shorthand prefix.
LiteralSymbol(r) ==
    IF r = rBacktick THEN Sym("quasiquote")
    ELSE IF r = "," THEN Sym("unquote") ELSE Sym("quote")

\* decoder.readLiteral
readLiteral(d) ==
    SyntaxAfterSkip(skip(appendLast(push(d, FALSE), LiteralSymbol(d.current))))

\* decoder.start
start(d) == IF d.err = "EOF" THEN Then(d, "nil", "") ELSE Then(d, "readSyntax", d.err)

\* decoder.readComment once readUntilBuffer has returned.
Commented(d) == IF d.err = "EOF" THEN Then(d, "nil", "") ELSE Then(d, "readSyntax", d.err)

\* decoder.readComment
readComment(d) == Commented(readUntilBuffer(d, {"\n"}))

\* The end of readString: skip, and stop reading at EOF.
StringSkipped(d) == IF d.err = "EOF" THEN Then(d, "nil", "") ELSE Then(d, "readSyntax", d.err)

\* decoder.readString once readUntilBuffer has returned.
StringRead(d) ==
    IF d.err = "EOF" THEN Then(d, "nil", UnclosedError("\""))
    ELSE IF d.err # "" THEN Then(d, "nil", d.err)
    ELSE StringSkipped(skip(appendLast(d, Str(Join(d.buffer)))))

\* decoder.readString
readString(d) == StringRead(readUntilBuffer(d, {"\""}))

HasSuffix(buf, end) ==
    Len(buf) >= Len(end) /\ SubSeq(buf, Len(buf) - Len(end) + 1, Len(buf)) = end

\* buf[:len(buf)-len(end)]
WithoutSuffix(buf, end) == SubSeq(buf, 1, Len(buf) - Len(end))

EndsHeredocAnywhere(buf, end) == HasSuffix(buf, end)

\* The end marker stands at the start of a line of the heredoc.
EndsHeredoc(buf, end) ==
    /\ HasSuffix(buf, end)
    /\ WithoutSuffix(buf, end) = <<>> \/ buf[Len(buf) - Len(end)] = "\n"

RECURSIVE heredocLoop(_, _)

\* One turn of the heredoc loop of readSymbol once readUntilBuffer has
\* returned.
heredocRead(d, end) ==
    IF d.err \in {"", "EOF"} /\ HasSuffix(d.buffer, end)
    THEN IF EndsHeredoc(d.buffer, end)
         THEN assign(d, Str(Join(WithoutSuffix(d.buffer, end))))
         ELSE heredocLoop([d EXCEPT !.buffer = Append(@, d.current)], end)
    ELSE IF d.err # ""
         THEN Then(d, "nil", IF d.err = "EOF" THEN "unexpected EOF" ELSE d.err)
         ELSE heredocLoop([d EXCEPT !.buffer = Append(@, d.current)], end)

heredocLoop(d, end) == heredocRead(readUntilBuffer(d, isSymbolic), end)

\* The token opens a heredoc: <<<, an end marker, and a newline right after.
IsHeredoc(d) ==
    /\ Len(d.buffer) > 3
    /\ d.current = "\n"
    /\ SubSeq(d.buffer, 1, 3) = <<"<", "<", "<">>

\* A Float, as its sign and the text strconv.ParseFloat was given.
Float(neg, txt) == <<"float", neg, Join(txt)>>

\* The digits of strconv in the order of their values, letters in lower case.
Digits == <<"0", "1", "2", "3", "4", "5", "6", "7", "8", "9", "a", "b", "c", "d", "e", "f">>

\* The value of a digit; a rune that is no digit below 16 has a value no
\* base of the reader admits.
DigitVal(ch) ==
    IF \E i \in DOMAIN Digits : Digits[i] = ch
    THEN (CHOOSE i \in DOMAIN Digits : Digits[i] = ch) - 1
    ELSE 36

NotANumber == [ok |-> FALSE, n |-> 0]

RECURSIVE ParseUintFrom(_, _, _, _)
ParseUintFrom(s, i, base, acc) ==
    IF i > Len(s) THEN [ok |-> TRUE, n |-> acc]
    ELSE IF DigitVal(s[i]) >= base THEN NotANumber
    ELSE ParseUintFrom(s, i + 1, base, acc * base + DigitVal(s[i]))

\* strconv.ParseUint(s, base, 64) with base 8, 10 or 16: every rune a digit
\* of the base, and at least one.  The tokens read here have few digits, so
\* the value is far inside 64 bits.
ParseUint(s, base) == IF s = <<>> THEN NotANumber ELSE ParseUintFrom(s, 1, base, 0)

\* strconv.ParseInt(s, base, 64): it takes a sign of its own before the
\* digits.
ParseInt(s, base) ==
    IF s = <<>> THEN NotANumber
    ELSE IF s[1] = "-" THEN [ok |-> ParseUint(Tail(s), base).ok, n |-> -ParseUint(Tail(s), base).n]
    ELSE IF s[1] = "+" THEN ParseUint(Tail(s), base)
    ELSE ParseUint(s, base)

\* strconv.ParseFloat(s, 64) succeeds, for s of digits, points and the
\* other runes of a token that has no exponent: decimal digits, at least
\* one, around at most one point.
ParseFloat(s) ==
    /\ \A i \in DOMAIN s : s[i] = "." \/ DigitVal(s[i]) <= 9
    /\ \E i \in DOMAIN s : DigitVal(s[i]) <= 9
    /\ Cardinality({i \in DOMAIN s : s[i] = "."}) <= 1

NoNumber == [ok |-> FALSE, value |-> Nil]

\* if neg { integer = -integer }
Negated(neg, n) == IF neg THEN -n ELSE n

\* part_007:772-778 -- the label float.
atFloat(neg, txt) ==
    IF ParseFloat(txt) THEN [ok |-> TRUE, value |-> Float(neg, txt)] ELSE NoNumber

\* part_007:759-770 -- the label integer: base 10.
atInteger(neg, txt) ==
    IF DigitVal(txt[1]) > 9 THEN NoNumber
    ELSE IF ParseInt(txt, 10).ok
         THEN [ok |-> TRUE, value |-> Integer(Negated(neg, ParseInt(txt, 10).n))]
         ELSE atFloat(neg, txt)

\* part_007:733-755 -- a 0 with more after it: the switch on the second rune.
zeroPrefixed(neg, txt) ==
    IF txt[2] = "x"
    THEN IF ParseInt(SubSeq(txt, 3, Len(txt)), 16).ok
         THEN [ok |-> TRUE,
               value |-> Integer(Negated(neg, ParseInt(SubSeq(txt, 3, Len(txt)), 16).n))]
         ELSE NoNumber
    ELSE IF DigitVal(txt[2]) <= 7
    THEN IF ParseInt(Tail(txt), 8).ok
         THEN [ok |-> TRUE, value |-> Integer(Negated(neg, ParseInt(Tail(txt), 8).n))]
         ELSE atInteger(neg, txt)
    ELSE IF DigitVal(txt[2]) <= 9 THEN atInteger(neg, txt)
    ELSE IF txt[2] = "." THEN atFloat(neg, txt)
    ELSE NoNumber

\* part_007:722-729 -- the token without its sign.
Unsigned(txt) == IF txt[1] \in {"-", "+"} THEN Tail(txt) ELSE txt

\* part_007:730-758 -- the number block once the sign has been taken off.
unsignedNumber(neg, txt) ==
    IF txt = <<>> THEN NoNumber
    ELSE IF txt[1] = "." THEN atFloat(neg, txt)
    ELSE IF txt[1] = "0" /\ Len(txt) > 1 THEN zeroPrefixed(neg, txt)
    ELSE IF txt[1] = "0" THEN [ok |-> TRUE, value |-> Integer(0)]
    ELSE atInteger(neg, txt)

\* part_007:715-779 -- "Try numbers": the number the token is, if it is one.
number(txt) == unsignedNumber(txt[1] = "-", Unsigned(txt))

\* The atom of a token that is no number and opens no heredoc.
symbol(txt) ==
    IF Join(txt) = "#nil" THEN Nil
    ELSE IF Join(txt) \in {"#t", "#f"} THEN Bool(Join(txt) = "#t")
    ELSE Sym(Join(txt))

\* decoder.readSymbol once readUntilBuffer has returned; EOF ends the symbol.
SymbolRead(d) ==
    IF number(d.buffer).ok THEN assign(d, number(d.buffer).value)
    ELSE IF IsHeredoc(d)
    THEN heredocLoop([d EXCEPT !.buffer = <<>>], SubSeq(d.buffer, 4, Len(d.buffer)))
    ELSE assign(d, symbol(d.buffer))

\* decoder.readSymbol
readSymbol(d) == SymbolRead(readUntilBuffer([d EXCEPT !.buffer = <<d.current>>], isSymbolic))

\* The switch of readSyntax.
Dispatch(d) ==
    CASE d.current = "(" -> readList(d)
      [] d.current = ")" -> closeList(d)
      [] d.current = ";" -> readComment(d)
      [] d.current \in {"'", rBacktick, ","} -> readLiteral(d)
      [] d.current = "\"" -> readString(d)
      [] d.current = "[" -> readVector(d)
      [] d.current = "]" -> closeVector(d)
      [] OTHER -> readSymbol(d)

\* decoder.readSyntax once skipSpace has returned.
SyntaxSpaced(d) ==
    IF d.err # "" THEN Then(d, "nil", d.err)
    ELSE Dispatch([d EXCEPT !.buffer = <<>>])

\* decoder.readSyntax
readSyntax(d) == SyntaxSpaced(skipSpace(d))

\* The loop of decoder.read.
RECURSIVE Run(_)
Run(s) ==
    IF s.next = "nil" \/ s.err # "" THEN s
    ELSE Run(readSyntax(s.d))

\* decoder.read: EOF is no error when every scope is closed, and an
\* unexpected one otherwise.
read(s) ==
    IF s.err = "EOF" /\ Len(s.d.scopes) = 1 THEN [s EXCEPT !.err = ""]
    ELSE IF s.err = "EOF" THEN [s EXCEPT !.err = "unexpected EOF"]
    ELSE s

\* decoder.reset
reset(input, mode) ==
    [input |-> input, mode |-> mode, err |-> "", current |-> NUL, buffer |-> <<>>,
     scopes |-> <<[open |-> FALSE, head |-> Vector(<<>>)]>>, closes |-> <<>>]

\* decoder.Read once read has returned.
ReadResult(s) ==
    [value |-> IF s.err # "" THEN Nil ELSE cons(s.d.scopes[1]), err |-> s.err, closes |-> s.d.closes]

\* parser.Read
Read(input, mode) == ReadResult(read(Run(start(nextRune(reset(input, mode))))))

\* The runes of the inputs.
Alphabet == {"(", ")", "[", "]", "'", "\"", ";", "\n", "a"}

MaxLen == 4

\* The runes of the inputs that exercise the shorthand prefixes.
QuoteAlphabet == {"'", rBacktick, ",", "(", ")", "\n", "a"}

\* The runes that follow the opening line of a heredoc whose end marker
\* is D.
HeredocAlphabet == {"D", "a", "\n", "(", ";", "\""}

HeredocOpening == <<"<", "<", "<", "D", "\n">>

HeredocInputs ==
    {HeredocOpening \o body : body \in UNION {[1 .. n -> HeredocAlphabet] : n \in 0 .. MaxLen}}

Inputs ==
    UNION {[1 .. n -> Alphabet] \cup [1 .. n -> QuoteAlphabet] : n \in 0 .. MaxLen}
        \cup HeredocInputs

(***************************************************************************)
(* Formatting (the String methods of the atoms), as the runes of the text. *)
(* Int and Float are left out, as the numbers are in the reader.           *)
(***************************************************************************)
\* The runes of the names and of the string contents in use.
Spell(s) ==
    CASE s = "a" -> <<"a">>
      [] s = "quote" -> <<"q", "u", "o", "t", "e">>
      [] s = "quasiquote" -> <<"q", "u", "a", "s", "i", "q", "u", "o", "t", "e">>
      [] s = "unquote" -> <<"u", "n", "q", "u", "o", "t", "e">>

\* skim.IsNil
IsNil(a) == a = Nil \/ (IsCons(a) /\ CarOf(a) = Nil /\ CdrOf(a) = Nil)

\* The prefix Cons.string writes for a list headed by quote, unquote or
\* quasiquote.
quo(car) ==
    IF car = Sym("unquote") THEN <<",">>
    ELSE IF car = Sym("quasiquote") THEN <<rBacktick>> ELSE <<"'">>

RECURSIVE fmtstring(_), listString(_, _), vectorFormat(_)

\* Cons.string(false) from the label list on: the loop over the cells, ch
\* being the rune written in front of the next one.
listString(c, ch) ==
    IF c = Nil THEN <<")">>
    ELSE IF ~IsCons(c) THEN <<ch, ".", " ">> \o fmtstring(c) \o <<")">>
    ELSE <<ch>> \o fmtstring(CarOf(c)) \o listString(CdrOf(c), " ")

\* Cons.string(false)
ConsString(c) ==
    IF IsNil(c) THEN <<"(", ")">>
    ELSE IF CarOf(c) \in {Sym("quote"), Sym("unquote"), Sym("quasiquote")} /\ IsCons(CdrOf(c))
         THEN IF IsNil(CdrOf(c)) THEN quo(CarOf(c)) \o <<"(", ")">>
              ELSE IF IsCons(CdrOf(CdrOf(c))) THEN quo(CarOf(c)) \o fmtstring(CdrOf(c))
              ELSE IF CdrOf(CdrOf(c)) = Nil THEN quo(CarOf(c)) \o fmtstring(CarOf(CdrOf(c)))
              ELSE listString(c, "(")
         ELSE listString(c, "(")

\* The elements of Vector.format, a space in front of each but the first.
vectorFormat(elems) ==
    IF elems = <<>> THEN <<>>
    ELSE IF Len(elems) = 1 THEN fmtstring(elems[1])
    ELSE fmtstring(elems[1]) \o <<" ">> \o vectorFormat(Tail(elems))

\* fmtstring: the String method of the atom, and #nil for nil.
fmtstring(a) ==
    CASE a = Nil -> <<"#", "n", "i", "l">>
      [] Kind(a) = "sym" -> Spell(a[2])
      [] Kind(a) = "str" -> <<"\"">> \o Spell(a[2]) \o <<"\"">>
      [] Kind(a) = "bool" -> IF a[2] THEN <<"#", "t">> ELSE <<"#", "f">>
      [] Kind(a) = "vec" -> <<"[">> \o vectorFormat(a[2]) \o <<"]">>
      [] Kind(a) = "cons" -> ConsString(a)

\* The atoms formatted and read back: symbols, strings, booleans, proper
\* lists of them, quote-headed ones included, lists of a leaf and a list,
\* and vectors.
Leaves == {Sym("a"), Sym("quote"), Str("a"), Bool(TRUE)}

ListsOfLeaves(n) == {List(elems) : elems \in UNION {[1 .. k -> Leaves] : k \in 1 .. n}}

Printable ==
    Leaves
        \cup ListsOfLeaves(MaxArgs + 1)
        \cup {List(<<x, l>>) : x \in Leaves, l \in ListsOfLeaves(MaxArgs)}
        \cup {Vector(elems) : elems \in UNION {[1 .. k -> Leaves] : k \in 0 .. MaxArgs}}

\* An atom is formatted and the text is read back.
DoFormatRead ==
    /\ Idle
    /\ \E a \in Printable, mode \in Deliveries :
          LET r == Read(fmtstring(a), mode)
          IN  last' = [NoOp EXCEPT !.op = "FormatRead", !.name = mode, !.form = a,
                                   !.ok = (r.err = ""), !.value = r.value,
                                   !.err = r.err, !.log = r.closes]
    /\ UNCHANGED <<heap, lam, nops, threads, tm, um, dec>>

DoRead ==
    /\ Idle
    /\ \E input \in Inputs, mode \in Deliveries :
          LET r == Read(input, mode)
          IN  last' = [NoOp EXCEPT !.op = "Read", !.name = mode, !.form = input,
                                   !.ok = (r.err = ""), !.value = r.value,
                                   !.err = r.err, !.log = r.closes]
    /\ UNCHANGED <<heap, lam, nops, threads, tm, um, dec>>

NextRead ==
    \/ DoRead
    \/ DoFormatRead
    \/ DoReturn

SpecRead == Init /\ [][NextRead]_vars

(***************************************************************************)
(* The reader step by step: dec is the position in the loop of             *)
(* decoder.read (at "next", about to call the nextfunc) or in the heredoc  *)
(* loop of readSymbol (at "heredoc", about to call readUntilBuffer).       *)
(***************************************************************************)
\* The runes of an input read step by step, after the opening line if it
\* is a heredoc.
MaxRunes == 3

\* The runes the buffer of a heredoc may come to hold.  A loop that ends
\* holds at most the runes of the input and the one written after them.
MaxBuffer == MaxRunes + 3

DecodeAlphabet == {"(", "[", "\"", ";", "'", "a"}

\* The end markers of the heredocs: D, and the rune U+0000.
HeredocEnds == {<<"D">>, <<NUL>>}

HeredocBodyAlphabet == {"a", "\n", "D", NUL}

DecodeInputs ==
    UNION {[1 .. n -> DecodeAlphabet] : n \in 0 .. MaxRunes}
        \cup {<<"<", "<", "<">> \o end \o <<"\n">> \o body :
                 end \in HeredocEnds,
                 body \in UNION {[1 .. n -> HeredocBodyAlphabet] : n \in 0 .. MaxRunes}}

Decoding == dec.at # "idle"

\* The token of readSymbol: d.current and the runes up to a symbolic one.
SymbolToken(d) == readUntilBuffer([d EXCEPT !.buffer = <<d.current>>], isSymbolic)

\* The nextfunc readSyntax, called with d, comes to the heredoc loop.
EntersHeredoc(d) ==
    /\ skipSpace(d).err = ""
    /\ skipSpace(d).current \notin sentinelRunes
    /\ IsHeredoc(SymbolToken(skipSpace(d)))

\* The heredoc loop takes another turn: the buffer ends with the end marker
\* away from the start of a line, or it does not and there is no error.
HeredocGoesOn(d, end) ==
    IF d.err \in {"", "EOF"} /\ HasSuffix(d.buffer, end)
    THEN ~EndsHeredoc(d.buffer, end)
    ELSE d.err = ""

\* The first turn of the heredoc loop: the end marker is the token after
\* <<<, and the buffer has been reset.
HeredocEntered(dc, tok) ==
    [dc EXCEPT !.at = "heredoc", !.d = [tok EXCEPT !.buffer = <<>>],
               !.end = SubSeq(tok.buffer, 4, Len(tok.buffer))]

\* The loop of decoder.read once the nextfunc has returned s.
Returned(dc, s) == [dc EXCEPT !.d = s.d, !.next = s.next, !.err = s.err]

\* next, err = next() in the loop of decoder.read, up to its return or to
\* the first turn of the heredoc loop.
AfterNext(dc) ==
    IF EntersHeredoc(dc.d)
    THEN HeredocEntered(dc, SymbolToken(skipSpace(dc.d)))
    ELSE Returned(dc, readSyntax(dc.d))

\* for next != nil && err == nil
LoopGoesOn(dc) == dc.next # "nil" /\ dc.err = ""

\* The loop of decoder.read about to test its condition, start having
\* returned s.
Started(s) == [at |-> "next", d |-> s.d, end |-> <<>>, next |-> s.next, err |-> s.err]

\* decoder.Read up to the end of the first turn of the loop of decoder.read.
DecodeStart ==
    \E input \in DecodeInputs, mode \in Deliveries :
        LET dc == Started(start(nextRune(reset(input, mode))))
        IN  /\ Idle
            /\ ~Decoding
            /\ dec' = IF LoopGoesOn(dc) THEN AfterNext(dc) ELSE dc
            /\ UNCHANGED <<heap, lam, last, nops, threads, tm, um>>

\* A later turn of the loop of decoder.read.
DecodeNext ==
    /\ dec.at = "next"
    /\ LoopGoesOn(dec)
    /\ dec' = AfterNext(dec)
    /\ UNCHANGED <<heap, lam, last, nops, threads, tm, um>>

\* One turn of the heredoc loop of readSymbol: readUntilBuffer, and then
\* either the end of readSymbol or d.buffer.WriteRune(d.current).
DecodeHeredoc ==
    /\ dec.at = "heredoc"
    /\ LET r == readUntilBuffer(dec.d, isSymbolic)
       IN  IF HeredocGoesOn(r, dec.end)
           THEN /\ Len(r.buffer) < MaxBuffer
                /\ dec' = [dec EXCEPT !.d = [r EXCEPT !.buffer = Append(@, r.current)]]
           ELSE LET s == heredocRead(r, dec.end)
                IN  dec' = [dec EXCEPT !.at = "next", !.d = s.d, !.next = s.next,
                                       !.err = s.err, !.end = <<>>]
    /\ UNCHANGED <<heap, lam, last, nops, threads, tm, um>>

\* The loop of decoder.read has ended, and Read returns.
DecodeReturn ==
    /\ dec.at = "next"
    /\ ~LoopGoesOn(dec)
    /\ LET r == ReadResult(read([d |-> dec.d, next |-> dec.next, err |-> dec.err]))
       IN  last' = [NoOp EXCEPT !.op = "Read", !.name = dec.d.mode, !.ok = (r.err = ""),
                                !.value = r.value, !.err = r.err, !.log = r.closes]
    /\ dec' = NotDecoding
    /\ UNCHANGED <<heap, lam, nops, threads, tm, um>>

DecodeStep == DecodeNext \/ DecodeHeredoc \/ DecodeReturn

NextDecode ==
    \/ DecodeStart
    \/ DecodeNext
    \/ DecodeHeredoc
    \/ DecodeReturn
    \/ DoReturn

\* Read runs on one goroutine: a loop that can take its next turn takes it.
DecodeProceeds == WF_vars(DecodeStep)

SpecDecode == Init /\ [][NextDecode]_vars /\ DecodeProceeds

(***************************************************************************)
(* Reading one token: a sign, digits of the three bases, the x of the hex  *)
(* prefix, a point, and a letter that is no digit.                         *)
(***************************************************************************)
MaxToken == 4

TokenAlphabet == {"-", "+", "0", "x", "7", "8", "f", ".", "g"}

Tokens == UNION {[1 .. n -> TokenAlphabet] : n \in 1 .. MaxToken}

\* Read(strings.NewReader(txt))
DoReadToken ==
    /\ Idle
    /\ \E txt \in Tokens :
          LET r == Read(txt, "string")
          IN  last' = [NoOp EXCEPT !.op = "ReadToken", !.name = "string",
                                   !.ok = (r.err = ""), !.value = r.value,
                                   !.err = r.err, !.log = txt]
    /\ UNCHANGED <<heap, lam, nops, threads, tm, um, dec>>

NextToken ==
    \/ DoReadToken
    \/ DoReturn

SpecToken == Init /\ [][NextToken]_vars

(***************************************************************************)
(* skim.Traverse.  A visitor counts the nodes it is handed: it returns an  *)
(* error for the one numbered failsAt, a nil visitor for the one numbered  *)
(* prunesAt, and itself for the others.  st is the count and the nodes     *)
(* handed over so far.                                                     *)
(***************************************************************************)
MaxVisits == 4

Visitors == [failsAt : 0 .. MaxVisits, prunesAt : 0 .. MaxVisits]

\* visitor(a)
Visited(st, a) == [n |-> st.n + 1, seen |-> Append(st.seen, a)]

VisitorFailed(v, st) == st.n = v.failsAt

VisitorNil(v, st) == st.n = v.prunesAt

RECURSIVE Traverse(_, _, _)
RECURSIVE TraverseElems(_, _, _, _)

\* The loop over the elements of a Vector once elems[i] has been traversed
\* with the outcome r.
TraverseElem(r, elems, i, v) ==
    IF r.err THEN r ELSE TraverseElems(elems, i + 1, v, r.st)

\* atoms.go:609-613 -- the loop over the elements of a Vector.
TraverseElems(elems, i, v, st) ==
    IF i > Len(elems) THEN [st |-> st, err |-> FALSE]
    ELSE TraverseElem(Traverse(elems[i], v, st), elems, i, v)

\* atoms.go:627-634 -- the car traversed with the outcome r: an error ends
\* Traverse with a nil error; otherwise it goes on with the cdr.
TraverseCar(r, a, v) ==
    IF r.err THEN [st |-> r.st, err |-> FALSE] ELSE Traverse(CdrOf(a), v, r.st)

\* atoms.go:603-634 -- Traverse once the visitor has been called for a.
TraverseVisited(st, a, v) ==
    IF VisitorNil(v, st) \/ VisitorFailed(v, st) THEN [st |-> st, err |-> VisitorFailed(v, st)]
    ELSE IF Kind(a) = "vec" THEN TraverseElems(a[2], 1, v, st)
    ELSE IF ~IsCons(a) THEN [st |-> st, err |-> FALSE]
    ELSE IF ~IsNil(CarOf(a)) THEN TraverseCar(Traverse(CarOf(a), v, st), a, v)
    ELSE Traverse(CdrOf(a), v, st)

\* skim.Traverse
Traverse(a, v, st) ==
    IF IsNil(a) THEN [st |-> st, err |-> FALSE]
    ELSE TraverseVisited(Visited(st, a), a, v)

\* The atoms traversed: lists, a list nested in the first slot of a pair, a
\* Vector, Vectors and lists nested in each other, and a dotted pair.
TraverseAtoms ==
    {Nil, Integer(1),
     List(<<Integer(1), Integer(2)>>),
     List(<<List(<<Integer(1)>>), Integer(2)>>),
     List(<<Integer(1), List(<<Integer(2)>>)>>),
     Vector(<<Integer(1), Integer(2)>>),
     Vector(<<List(<<Integer(1)>>), Integer(2)>>),
     List(<<Vector(<<Integer(1)>>), Integer(2)>>),
     Cons(Integer(1), Integer(2))}

DoTraverse ==
    \E a \in TraverseAtoms, v \in Visitors :
        LET r == Traverse(a, v, [n |-> 0, seen |-> <<>>])
        IN  /\ Idle
            /\ last' = [NoOp EXCEPT !.op = "Traverse", !.form = a, !.arg = v.failsAt,
                                    !.c = v.prunesAt, !.ret = r.st.n, !.ok = ~r.err,
                                    !.err = IF r.err THEN "visitor" ELSE "",
                                    !.log = r.st.seen]
            /\ UNCHANGED <<heap, lam, nops, threads, tm, um, dec>>

NextTraverse ==
    \/ DoTraverse
    \/ DoReturn

SpecTraverse == Init /\ [][NextTraverse]_vars

(***************************************************************************)
(* Vocabulary of the properties.                                           *)
(***************************************************************************)
\* The frames from c up to its root, innermost first.
RECURSIVE Chain(_, _)
Chain(h, c) == IF c = 0 THEN <<>> ELSE <<c>> \o Chain(h, h[c].up)

Min(S) == CHOOSE m \in S : \A n \in S : m <= n

\* What the innermost entry for name on the chain of c says.
InnermostEntry(h, c, name) ==
    LET ch  == Chain(h, c)
        has == {i \in 1..Len(ch) : name \in DOMAIN h[ch[i]].table}
    IN  IF has = {} THEN [value |-> Nil, ok |-> FALSE]
        ELSE LET e == h[ch[Min(has)]].table[name]
             IN  IF e = Unbound THEN [value |-> Nil, ok |-> FALSE]
                 ELSE [value |-> e, ok |-> TRUE]

Occluded(h, c, name) ==
    LET ch  == Chain(h, c)
        has == {i \in 1..Len(ch) : name \in DOMAIN h[ch[i]].table}
    IN  /\ has # {}
        /\ h[ch[Min(has)]].table[name] = Unbound
        /\ \E i \in has : h[ch[i]].table[name] # Unbound

(***************************************************************************)
(* C1 -- Tombstone occlusion: after bind(x, 1) on A, B = A.fork() and      *)
(* unbind(x) on B, resolve(x) from B reports not-found while resolve(x)    *)
(* from A still reports the value.                                         *)
(***************************************************************************)
C1_TombstoneOcclusion ==
    \A b \in Ctxs :
        (/\ last.op = "Unbind"
         /\ last.c = b
         /\ heap[b].up # 0
         /\ Resolve(heap, heap[b].up, last.name).ok)
        => ~Resolve(heap, b, last.name).ok

(***************************************************************************)
(* C2 -- resolve(symbol) returns the entry of the innermost frame on the   *)
(* chain that has any entry for the symbol: a live entry is returned as    *)
(* found, a tombstone stops the search with not-found even when a further  *)
(* ancestor holds a live binding, and no entry at all is not-found.        *)
(***************************************************************************)
C2_ResolveInnermost ==
    last.op = "Resolve" =>
        /\ last.ok = InnermostEntry(heap, last.c, last.name).ok
        /\ last.value = InnermostEntry(heap, last.c, last.name).value

C2_Witness ==
    /\ last.op = "Resolve"
    /\ Occluded(heap, last.c, last.name)
    /\ heap[last.c].up # 0
    /\ ~last.ok

(***************************************************************************)
(* C3 -- unbind(symbol) returns true exactly when, immediately before the  *)
(* call, resolve(symbol) from the same frame would have reported found.    *)
(***************************************************************************)
C3_UnbindReportsVisible ==
    [][last'.op = "Unbind" => last'.ok = Resolve(heap, last'.c, last'.name).ok]_vars

(***************************************************************************)
(* C4 -- flatten() excludes tombstoned names: resolve on the parent-less   *)
(* result of flatten() agrees with resolve on the receiver for every       *)
(* symbol.                                                                 *)
(***************************************************************************)
C4_FlattenAgreesWithResolve ==
    last.op = "Dup" =>
        /\ heap[last.ret].up = 0
        /\ \A s \in Symbols : Resolve(heap, last.ret, s) = Resolve(heap, last.c, s)

(***************************************************************************)
(* C5 -- overlay(caller_env) yields a fresh frame whose parent is          *)
(* caller_env and whose own bindings are the flattened captured chain:     *)
(* a symbol resolves to the captured chain's binding when the captured     *)
(* chain has one, and otherwise to what resolve on caller_env returns.     *)
(***************************************************************************)
C5_OverlayResolution ==
    last.op = "Overlay" =>
        /\ heap[last.ret].up = last.arg
        /\ \A s \in Symbols :
              Resolve(heap, last.ret, s) =
                  IF Resolve(heap, last.c, s).ok THEN Resolve(heap, last.c, s)
                  ELSE Resolve(heap, last.arg, s)

(***************************************************************************)
(* Vocabulary of the closure properties.                                   *)
(***************************************************************************)
IsArgEvent(e) == e.ev = "arg"

IsBodyEvent(e) == e.ev = "body"

ArgEvents(log) == SelectSeq(log, IsArgEvent)

BodyEvents(log) == SelectSeq(log, IsBodyEvent)

Failed(events) == \E i \in DOMAIN events : events[i].err # ""

\* The elements of a proper chain, in order.
RECURSIVE Elems(_)
Elems(a) == IF a = Nil THEN <<>> ELSE <<CarOf(a)>> \o Elems(CdrOf(a))

RECURSIVE BindAll(_, _, _, _)
BindAll(table, names, events, i) ==
    IF i > Len(names) THEN table
    ELSE BindAll(MapSet(table, names[i], events[i].value), names, events, i + 1)

Invoked == last.op = "LambdaEval"

NParams == Len(lam[3])

NArgs == ChainLen(last.form)

(***************************************************************************)
(* C6 -- A closure owns a snapshot of its defining environment taken at    *)
(* construction time: a bind or unbind on the defining environment or an   *)
(* ancestor after construction does not change the captured bindings a     *)
(* later invocation resolves from.                                         *)
(***************************************************************************)
C6_SnapshotAtConstruction ==
    [][(lam # Nil /\ lam' = lam)
         => DupFrame(heap', lam[2]).table = DupFrame(heap, lam[2]).table]_vars

\* C6 as amended: the closure holds a reference to its defining
\* environment, and every invocation starts from the flattening of that
\* chain as it is at the time of the invocation, parented on the caller.
C6_CapturedAtInvocation ==
    Invoked =>
        /\ last.log[1].ev = "call"
        /\ last.log[1].frame.table = DupFrame(heap, DefCtx).table
        /\ last.log[1].frame.up = last.c

C6_Witness ==
    /\ Invoked
    /\ last.c = CallerCtx
    /\ "x" \in DOMAIN heap[DefCtx].table
    /\ heap[DefCtx].table["x"] # Unbound
    /\ lam[4] = List(<<Sym("x")>>)
    /\ last.err = ""
    /\ last.value = heap[DefCtx].table["x"]
    /\ Resolve(heap, CallerCtx, "x").value # last.value

(***************************************************************************)
(* C7 -- Each argument expression is evaluated in its own fresh child      *)
(* frame of the caller's environment, never in the call frame: it sees     *)
(* neither the parameters bound so far nor bindings only the captured      *)
(* environment has; a binding it creates is visible neither to later       *)
(* arguments, nor to the body, nor in the caller's environment afterwards; *)
(* only its value is bound, in the call frame, under the parameter name.   *)
(***************************************************************************)
C7_ArgumentIsolation ==
    [][last'.op = "LambdaEval" =>
         LET log  == last'.log
             call == log[1].c
             args == ArgEvents(log)
             body == BodyEvents(log)
         IN  /\ heap' = heap
             /\ \A i \in DOMAIN args :
                   /\ args[i].c \notin (1..Len(heap)) \cup {call}
                   /\ args[i].frame = NewFrame(last'.c)
                   /\ \A j \in DOMAIN args : j # i => args[j].c # args[i].c
                   /\ Kind(args[i].form) = "sym" =>
                         /\ (args[i].err = "") = Resolve(heap, last'.c, args[i].form[2]).ok
                         /\ args[i].value = Resolve(heap, last'.c, args[i].form[2]).value
             /\ body # <<>> =>
                   body[1].frame.table = BindAll(log[1].frame.table, lam[3], args, 1)]_vars

C7_Witness ==
    /\ Invoked
    /\ \E i, j \in DOMAIN last.log :
          /\ i < j
          /\ last.log[i].ev = "arg"
          /\ last.log[i].form = SetqY
          /\ last.log[i].err = ""
          /\ last.log[j].form = Sym("y")
          /\ last.log[j].err = "undefined"

(***************************************************************************)
(* C8 -- Closure arity: a closure with n parameters invoked with m         *)
(* arguments fails with an arity error whenever m # n, and the body is     *)
(* then never evaluated; with m = n and every argument and body form       *)
(* evaluating without error, the invocation succeeds.                      *)
(***************************************************************************)
C8_ArityErrorWheneverMismatch ==
    Invoked =>
        /\ NArgs # NParams =>
              /\ last.err \in {"toomany", "toofew"}
              /\ BodyEvents(last.log) = <<>>
        /\ (/\ NArgs = NParams
            /\ ~Failed(ArgEvents(last.log))
            /\ ~Failed(BodyEvents(last.log))) => last.err = ""

\* C8 as amended: with m # n the invocation fails and the body is never
\* evaluated; the error is the arity error when each of the first min(m, n)
\* argument expressions evaluates without error, and otherwise the error of
\* the first argument that fails.
C8_ArityOrArgumentError ==
    Invoked =>
        LET args == ArgEvents(last.log)
            least == IF NArgs < NParams THEN NArgs ELSE NParams
        IN  /\ Len(args) <= least
            /\ NArgs # NParams =>
                  /\ BodyEvents(last.log) = <<>>
                  /\ last.value = Nil
                  /\ last.err = IF Failed(args) THEN "argerr"
                                ELSE IF NArgs > NParams THEN "toomany" ELSE "toofew"
                  /\ ~Failed(args) => Len(args) = least
            /\ (/\ NArgs = NParams
                /\ ~Failed(args)
                /\ ~Failed(BodyEvents(last.log))) => last.err = ""

C8_Witness ==
    /\ Invoked
    /\ NArgs < NParams
    /\ NArgs > 0
    /\ last.err = "toofew"

(***************************************************************************)
(* C9 -- Closure construction rejects duplicate formal-parameter symbols:  *)
(* (lambda [x x] x) fails with an error and produces no closure.           *)
(***************************************************************************)
HasDuplicateParams(form) ==
    /\ form # Nil
    /\ Kind(CarOf(form)) = "vec"
    /\ LET v == CarOf(form)[2]
       IN  \E i, j \in DOMAIN v : i # j /\ Kind(v[i]) = "sym" /\ v[i] = v[j]

C9_RejectsDuplicateParams ==
    (last.op = "newLambda" /\ HasDuplicateParams(last.form))
        => (last.err # "" /\ last.value = Nil)

(***************************************************************************)
(* C10 -- After the parameters are bound an invocation evaluates every     *)
(* body form exactly once, in source order, in the call frame; it stops at *)
(* the first form that fails, returning that error and no value, and       *)
(* otherwise returns the value of the last body form, whatever that form   *)
(* is, a #nil literal in last position included.                           *)
(***************************************************************************)
C10_BodyInOrder ==
    (/\ Invoked
     /\ NArgs = NParams
     /\ ~Failed(ArgEvents(last.log))) =>
        LET forms == Elems(lam[4])
            body  == BodyEvents(last.log)
        IN  /\ Len(body) <= Len(forms)
            /\ \A k \in DOMAIN body :
                  /\ body[k].form = forms[k]
                  /\ body[k].c = last.log[1].c
                  /\ k < Len(body) => body[k].err = ""
            /\ IF Failed(body)
               THEN last.err = body[Len(body)].err /\ last.value = Nil
               ELSE /\ Len(body) = Len(forms)
                    /\ last.err = ""
                    /\ last.value = body[Len(body)].value

(***************************************************************************)
(* Vocabulary of the evaluation properties.                                *)
(***************************************************************************)
Evaluated == last.op = "Eval"

IsInvokeEvent(e) == e.ev = "invoke"

InvokeEvents(log) == SelectSeq(log, IsInvokeEvent)

RECURSIVE ProperChain(_)
ProperChain(a) == a = Nil \/ (IsCons(a) /\ ProperChain(CdrOf(a)))

Callable(v) == Kind(v) \in {"proc", "lambda"}

(***************************************************************************)
(* C11 -- Evaluating a Pair first evaluates its first slot with the full   *)
(* evaluator (a Symbol is resolved, a nested compound form is evaluated, a *)
(* Procedure is used as is); if that fails its error is returned, and if   *)
(* the value is not callable the result is the uncallable error and        *)
(* nothing is invoked.                                                     *)
(***************************************************************************)
C11_HeadThenCallable ==
    [][(last'.op = "Eval" /\ IsCons(last'.form)) =>
         LET head == CarOf(last'.form)
             p    == Eval([h |-> heap, log |-> <<>>], last'.c, head)
         IN  /\ Kind(head) = "sym" =>
                   /\ (p.err = "") = Resolve(heap, last'.c, head[2]).ok
                   /\ p.value = Resolve(heap, last'.c, head[2]).value
             /\ Kind(head) = "proc" => (p.err = "" /\ p.value = head)
             /\ p.err # "" =>
                   /\ last'.err = p.err
                   /\ last'.value = Nil
                   /\ last'.log = p.st.log
             /\ (p.err = "" /\ ~Callable(p.value)) =>
                   /\ last'.err = "uncallable"
                   /\ last'.value = Nil
                   /\ last'.log = p.st.log
                   /\ heap' = SubSeq(p.st.h, 1, Len(heap))]_vars

C11_Witness ==
    /\ Evaluated
    /\ last.form = List(<<Quoted(Integer(1)), SetqX>>)
    /\ last.err = "uncallable"
    /\ Len(InvokeEvents(last.log)) = 1
    /\ ~Resolve(heap, last.c, "x").ok

(***************************************************************************)
(* C12 -- Evaluating a Pair whose rest slot is neither Empty nor a proper  *)
(* Pair chain, at whatever depth the chain ends improperly, fails with the *)
(* malformed-call error and the callable is not invoked.                   *)
(***************************************************************************)
C12_MalformedCallRejected ==
    (/\ Evaluated
     /\ IsCons(last.form)
     /\ Kind(CarOf(last.form)) = "sym"
     /\ Callable(Resolve(heap, last.c, CarOf(last.form)[2]).value)
     /\ ~ProperChain(CdrOf(last.form)))
        => (last.err = "illformed" /\ InvokeEvents(last.log) = <<>>)

(***************************************************************************)
(* C13 -- eval hands the callable the exact rest chain of the form,        *)
(* unevaluated, and evaluates no argument itself: (quote a) returns a as   *)
(* it is, whatever a would do if evaluated, and changes no binding.        *)
(***************************************************************************)
C13_RestChainUnevaluated ==
    [][(/\ last'.op = "Eval"
        /\ IsCons(last'.form)
        /\ Kind(CarOf(last'.form)) = "sym"
        /\ Callable(Resolve(heap, last'.c, CarOf(last'.form)[2]).value)
        /\ CdrOf(last'.form) = Nil \/ IsCons(CdrOf(last'.form))) =>
         /\ last'.log # <<>>
         /\ last'.log[1].ev = "invoke"
         /\ last'.log[1].form = CdrOf(last'.form)
         /\ last'.log[1].value = Resolve(heap, last'.c, CarOf(last'.form)[2]).value
         /\ (last'.log[1].value = Proc("quote") /\ CdrOf(last'.form) # Nil) =>
               /\ last'.value = CarOf(CdrOf(last'.form))
               /\ last'.err = ""
               /\ Len(last'.log) = 1
               /\ heap' = heap]_vars

C13_Witness ==
    /\ Evaluated
    /\ last.form = Quoted(SetqX)
    /\ last.value = SetqX
    /\ last.err = ""
    /\ ~Resolve(heap, last.c, "x").ok

(***************************************************************************)
(* C14 -- A panic raised inside a callable invoked by eval is intercepted  *)
(* at that eval call and returned as an ordinary error with no value; it   *)
(* never propagates out of eval, at any nesting depth of calls.            *)
(***************************************************************************)
C14_PanicBecomesError ==
    Evaluated =>
        /\ last.ok
        /\ \A i \in DOMAIN last.log :
              last.log[i].ev = "recover" =>
                  /\ last.log[i].err # ""
                  /\ last.log[i].value = Nil
                  /\ i = Len(last.log) => (last.err = last.log[i].err /\ last.value = Nil)

C14_Witness ==
    /\ Evaluated
    /\ last.form = List(<<Sym("setq"), Sym("x"), ModZero>>)
    /\ last.ok
    /\ last.err = "divide"
    /\ last.value = Nil
    /\ Len(InvokeEvents(last.log)) = 2

(***************************************************************************)
(* C15 -- Evaluating a Symbol returns exactly the value resolve reports    *)
(* for it, and fails with the unbound-symbol error exactly when resolve    *)
(* reports not-found; no binding is changed.                               *)
(***************************************************************************)
C15_SymbolIsResolved ==
    [][(last'.op = "Eval" /\ Kind(last'.form) = "sym") =>
         LET v == Resolve(heap, last'.c, last'.form[2])
         IN  /\ (last'.err = "") = v.ok
             /\ (last'.err = "undefined") = ~v.ok
             /\ last'.value = v.value
             /\ heap' = heap]_vars

C15_Witness ==
    /\ Evaluated
    /\ Kind(last.form) = "sym"
    /\ Occluded(heap, last.c, last.form[2])
    /\ last.err = "undefined"

(***************************************************************************)
(* C16 -- Empty evaluates to itself: eval returns Empty with no error both *)
(* for the #nil literal and for the empty-list value read from "()".       *)
(***************************************************************************)
C16_EmptyEvaluatesToItself ==
    (Evaluated /\ last.form \in {Nil, EmptyList})
        => (last.value = Nil /\ last.err = "")

(***************************************************************************)
(* The driver (main): the whole of standard input is read, then the forms  *)
(* are evaluated one by one in a context that has the builtins bound.      *)
(* While it runs, last holds the forms read, the index of the next one and *)
(* the record of the evaluations made.                                     *)
(***************************************************************************)
FormTexts ==
    {<<"(", "s", "e", "t", "q", " ", "x", " ", "'", "a", ")">>, <<"x">>, <<"y">>, <<")">>}

\* The forms, a newline after each.
RECURSIVE ProgramText(_)
ProgramText(forms) ==
    IF forms = <<>> THEN <<>> ELSE Head(forms) \o <<"\n">> \o ProgramText(Tail(forms))

Programs ==
    {ProgramText(forms) : forms \in UNION {[1 .. n -> FormTexts] : n \in 0 .. MaxArgs + 1}}

\* interp.NewContext() with the builtins bound.
Builtins ==
    Bind(Bind(Bind(NewContext(<<>>), RootCtx, "setq", Proc("setq")),
              RootCtx, "quote", Proc("quote")),
         RootCtx, "modulo", Proc("modulo"))

InitMain ==
    /\ heap = Builtins
    /\ lam = Nil
    /\ last = NoOp
    /\ nops = 0
    /\ NoThreads
    /\ dec = NotDecoding

\* parser.Read(os.Stdin): a file is no rune reader, and hands over the
\* bytes before it reports the end.  log.Fatal ends the run on an error.
DoMainRead ==
    /\ Idle
    /\ \E input \in Programs :
          LET r == Read(input, "onebyte")
          IN  last' = [NoOp EXCEPT !.op = IF r.err = "" THEN "main" ELSE "fatal",
                                   !.name = Join(input), !.form = r.value,
                                   !.arg = 1, !.err = r.err]
    /\ UNCHANGED <<heap, lam, nops, threads, tm, um, dec>>

VisitErrorOfEval(r) == r.err

\* What the function main hands to skim.Walk returns: nil, whatever Eval
\* returned.
VisitError(r) == ""

\* The record of one evaluation.
Evaluation(form, r) == [form |-> form, c |-> RootCtx, value |-> r.value, err |-> r.err]

\* One turn of skim.Walk over the vector read: ctx.Eval of the next form;
\* an error of the visit ends the walk.
DoMainEval ==
    /\ last.op = "main"
    /\ last.arg <= Len(last.form[2])
    /\ LET form == last.form[2][last.arg]
           r == Eval([h |-> heap, log |-> <<>>], RootCtx, form)
       IN  /\ heap' = SubSeq(r.st.h, 1, Len(heap))
           /\ last' = [last EXCEPT !.log = Append(@, Evaluation(form, r)),
                                   !.arg = IF VisitError(r) = "" THEN @ + 1
                                           ELSE Len(last.form[2]) + 1,
                                   !.ok = VisitError(r) = ""]
    /\ UNCHANGED <<lam, nops, threads, tm, um, dec>>

\* The walk is over, or the read failed: the process ends.
DoMainExit ==
    /\ \/ last.op = "fatal"
       \/ last.op = "main" /\ last.arg > Len(last.form[2])
    /\ heap' = Builtins
    /\ last' = NoOp
    /\ UNCHANGED <<lam, nops, threads, tm, um, dec>>

NextMain ==
    \/ DoMainRead
    \/ DoMainEval
    \/ DoMainExit

SpecMain == InitMain /\ [][NextMain]_vars

(***************************************************************************)
(* Vocabulary of the reader's properties.  Scan follows an input rune by   *)
(* rune: the brackets open, whether a quote shorthand awaits its datum,    *)
(* whether a string or a comment is being read, and whether a closer has   *)
(* failed to match.                                                        *)
(***************************************************************************)
ScanStart == [stack |-> <<>>, await |-> FALSE, in |-> "", bad |-> FALSE]

Closer(r) == IF r = "(" THEN ")" ELSE "]"

ScanRune(s, r) ==
    IF s.bad THEN s
    ELSE IF s.in = "string" THEN (IF r = "\"" THEN [s EXCEPT !.in = ""] ELSE s)
    ELSE IF s.in = "comment" THEN (IF r = "\n" THEN [s EXCEPT !.in = ""] ELSE s)
    ELSE CASE r \in {"(", "["} -> [s EXCEPT !.stack = Append(@, r), !.await = FALSE]
           [] r \in {")", "]"} ->
                IF s.await \/ s.stack = <<>> THEN [s EXCEPT !.bad = TRUE]
                ELSE IF Closer(s.stack[Len(s.stack)]) # r THEN [s EXCEPT !.bad = TRUE]
                ELSE [s EXCEPT !.stack = SubSeq(@, 1, Len(@) - 1)]
           [] r = "\"" -> [s EXCEPT !.in = "string", !.await = FALSE]
           [] r = ";" -> [s EXCEPT !.in = "comment"]
           [] r \in {"'", rBacktick, ","} -> [s EXCEPT !.await = TRUE]
           [] r \in Spaces -> s
           [] OTHER -> [s EXCEPT !.await = FALSE]

RECURSIVE ScanFrom(_, _)
ScanFrom(s, input) ==
    IF input = <<>> THEN s ELSE ScanFrom(ScanRune(s, Head(input)), Tail(input))

Scan(input) == ScanFrom(ScanStart, input)

\* The input ends while a bracket is open.
OpenAtEnd(input) ==
    input \notin HeredocInputs /\ ~Scan(input).bad /\ Scan(input).stack # <<>>

\* The input holds a closer that does not match.
Mismatch(input) == input \notin HeredocInputs /\ Scan(input).bad

HasRead == last.op = "Read"

\* The stream handed over every byte before it reported the end.
EveryByteDelivered == last.name \in {"string", "onebyte"}

Outcome(r) == <<r.value, r.err>>

\* The closer dispatched does not match the innermost scope.
Mismatched(e) ==
    \/ e.rune = "]" /\ e.scope # "vector"
    \/ e.rune = ")" /\ e.scope # "list"

\* C17: a valid input, one that reads without error when the stream hands
\* it over whole, has the same outcome under every delivery: whole, one
\* byte per Read call, or the final byte together with io.EOF.
C17_DeliveryIndependent ==
    (HasRead /\ Read(last.form, "string").err = "")
        => \A mode \in Deliveries :
              Outcome(Read(last.form, mode)) = <<last.value, last.err>>

\* C18: an input that ends while a ( or a [ is open makes Read fail and
\* return no atoms, whatever the last token is.
C18_OpenAtEndFails ==
    (HasRead /\ EveryByteDelivered /\ OpenAtEnd(last.form))
        => (last.err # "" /\ last.value = Nil)

\* C19: reading "(" alone fails with the unclosed-bracket error for "(",
\* the one that expects ")", not with a generic end-of-input error.
C19_LoneParenUnclosed ==
    (HasRead /\ EveryByteDelivered /\ last.form = <<"(">>)
        => last.err = UnclosedError("(")

\* C20: a closer that does not match the innermost open bracket makes Read
\* fail: "]" in a list, ")" in a vector, and either when no bracket is open
\* or right after a quote shorthand.  No closer is read after it, and when
\* the stream delivers every byte, an input holding such a closer fails.
C20_MismatchedCloserFails ==
    HasRead =>
        /\ \A i \in 1 .. Len(last.log) :
              Mismatched(last.log[i])
                  => (i = Len(last.log) /\ last.err = BadCharError(last.log[i].rune)
                      /\ last.value = Nil)
        /\ (EveryByteDelivered /\ Mismatch(last.form)) => last.err # ""

\* C21: a "," that no quasiquote form encloses, as one that starts the
\* input in front of a symbol, makes Read fail with the
\* unquote-outside-quasiquote error.
C21_UnquoteNeedsQuasiquote ==
    (HasRead /\ EveryByteDelivered /\ Len(last.form) >= 2
     /\ last.form[1] = "," /\ last.form[2] = "a")
        => last.err = ErrUnquoteContext

QuoteSymbols == {Sym("quote"), Sym("quasiquote"), Sym("unquote")}

\* Every list headed by a shorthand's symbol has exactly two elements.
RECURSIVE ShorthandsWrapOne(_)
ShorthandsWrapOne(a) ==
    CASE Kind(a) = "vec" -> \A i \in 1 .. Len(a[2]) : ShorthandsWrapOne(a[2][i])
      [] Kind(a) = "cons" ->
            /\ CarOf(a) \in QuoteSymbols
                  => (Kind(CdrOf(a)) = "cons" /\ CdrOf(CdrOf(a)) = Nil)
            /\ ShorthandsWrapOne(CarOf(a))
            /\ ShorthandsWrapOne(CdrOf(a))
      [] OTHER -> TRUE

\* C22: a shorthand prefix wraps exactly the next datum into a list of two
\* elements, (quote datum); a datum after the wrapped one is a sibling in
\* the enclosing form and never a third element; nested prefixes nest, so
\* that ''() reads as (quote (quote ())).
C22_ShorthandWrapsOneDatum ==
    (HasRead /\ EveryByteDelivered /\ last.err = "")
        => /\ ShorthandsWrapOne(last.value)
           /\ last.form = <<"'", "'", "(", ")">>
                 => last.value = Vector(<<Quoted(Quoted(EmptyList))>>)

\* The end marker stands at position p of the body of a heredoc: at the
\* start of a line, and followed by the end of the input or by a rune that
\* ends a token.
TerminatorAt(body, p, end) ==
    /\ p + Len(end) - 1 <= Len(body)
    /\ SubSeq(body, p, p + Len(end) - 1) = end
    /\ p = 1 \/ body[p - 1] = "\n"
    /\ p + Len(end) > Len(body) \/ body[p + Len(end)] \in isSymbolic

Terminators(body, end) == {p \in 1 .. Len(body) : TerminatorAt(body, p, end)}

FirstTerminator(body, end) ==
    CHOOSE p \in Terminators(body, end) : \A q \in Terminators(body, end) : p <= q

HeredocBody(input) == SubSeq(input, Len(HeredocOpening) + 1, Len(input))

\* What Read returns for a heredoc with the given content, followed by
\* input whose reading is rest.
AfterHeredoc(content, rest) ==
    IF rest.err # "" THEN <<Nil, rest.err>>
    ELSE <<Vector(<<Str(Join(content))>> \o rest.value[2]), "">>

C24_RoundTrip ==
    (last.op = "FormatRead" /\ EveryByteDelivered)
        => (last.err = "" /\ last.value = Vector(<<last.form>>))

\* The driver has evaluated every form it read.
MainDone == last.op = "main" /\ last.arg > Len(last.form[2])

\* C25: the driver reads all its input before it evaluates anything; when
\* the read fails, no form is evaluated; otherwise the forms evaluated so
\* far are the first forms read, each once and in order, all in the root
\* context, whose bindings are those the earlier forms left; and every form
\* is evaluated in the end, whether or not an earlier one failed.
C25_ReadThenEvaluateAll ==
    /\ [](/\ last.op = "fatal" => (last.log = <<>> /\ heap = Builtins)
          /\ last.op = "main" =>
                /\ Len(last.log) = last.arg - 1
                /\ \A i \in 1 .. Len(last.log) :
                      last.log[i].form = last.form[2][i] /\ last.log[i].c = RootCtx
          /\ MainDone => Len(last.log) = Len(last.form[2]))
    /\ [][/\ last'.op = "main" => (last.op = "main" \/ (last'.log = <<>> /\ heap = Builtins))
          /\ (last.op = "main" /\ last'.op = "main") =>
                /\ last'.form = last.form
                /\ last'.log[Len(last'.log)] =
                      LET r == Eval([h |-> heap, log |-> <<>>], RootCtx, last.form[2][last.arg])
                      IN  Evaluation(last.form[2][last.arg], r)]_vars

\* (setq x 'a), y, x: the second form fails, and the third finds the
\* binding the first made.
C25_Witness ==
    /\ MainDone
    /\ Len(last.log) = 3
    /\ last.log[2].err # ""
    /\ last.log[3].form = Sym("x")
    /\ last.log[3].value = Sym("a")
    /\ last.log[3].err = ""

C20_Witness ==
    /\ HasRead
    /\ last.form = <<"(", "a", "]">>
    /\ last.log = <<[rune |-> "]", scope |-> "list"]>>
    /\ last.err = BadCharError("]")

(***************************************************************************)
(* C27 -- bind(symbol, value) inserts or overwrites the entry in the        *)
(* receiver frame only, a tombstone included: afterwards resolve(symbol)    *)
(* from that frame reports value, every other frame is as it was, and no    *)
(* other symbol resolves differently from any frame.                        *)
(***************************************************************************)
BindStep == nops' = nops + 1 /\ last' = last

C27_BindReceiverOnly ==
    [][BindStep =>
          \E c \in Ctxs, name \in Symbols : \E value \in Values(c) :
              /\ Resolve(heap', c, name) = [value |-> value, ok |-> TRUE]
              /\ Len(heap') = Len(heap)
              /\ \A d \in Ctxs \ {c} : heap'[d] = heap[d]
              /\ heap'[c].up = heap[c].up /\ heap'[c].upval = heap[c].upval
              /\ \A d \in Ctxs : \A s \in Symbols \ {name} :
                    Resolve(heap', d, s) = Resolve(heap, d, s)]_vars

\* A frame holds a binding of its own where its parent holds a tombstone.
C27_Witness ==
    \E c \in Ctxs :
        /\ heap[c].up # 0
        /\ "x" \in DOMAIN heap[c].table
        /\ heap[c].table["x"] = Integer(c)
        /\ "x" \in DOMAIN heap[heap[c].up].table
        /\ heap[heap[c].up].table["x"] = Unbound
        /\ Resolve(heap, c, "x") = [value |-> Integer(c), ok |-> TRUE]

(***************************************************************************)
(* C28 -- upvalues are private to a frame and never inherited: upvalue(name)*)
(* on a frame returns only a value that set_upvalue stored on that very     *)
(* frame, never one stored on its parent, on the frame it was forked from   *)
(* or on the frame flatten or overlay made it from; and set_upvalue with an *)
(* absent value deletes the entry, so that upvalue(name) reports absent.    *)
(***************************************************************************)
C28_UpvaluesPrivate ==
    /\ [](last.op = "Upvalue" => last.value \in {Nil, Integer(last.c)})
    /\ [][(last'.op = "SetUpvalue" /\ last'.value = Nil)
             => Upvalue(heap', last'.c, last'.name) = Nil]_vars

(***************************************************************************)
(* C26 -- writes to a frame's tables are exclusive: no bind, unbind or      *)
(* set_upvalue on a frame overlaps in time with another thread's read       *)
(* (resolve, upvalue, flatten or overlay) or write of the same table of     *)
(* that frame.                                                              *)
(***************************************************************************)
C26_WritesExclusive == \A t \in Threads, u \in Threads : ~Conflict(t, u)

(***************************************************************************)
(* C29 -- walk calls visit exactly once on every element, in order: on      *)
(* each element of a Vector, and on the first of every cell of a chain, so  *)
(* a chain built by list(e1..en) gets exactly n visits whatever the         *)
(* elements are, #nil in last position included; it stops at and returns    *)
(* the first error of visit, and fails when it reaches a tail that is       *)
(* neither a Pair nor Empty.                                                *)
(***************************************************************************)
WalkArgs == last.value[2]

VisitFails == last.arg \in 1 .. Len(WalkArgs)

C29_WalkVisitsEachOnce ==
    last.op = "Walk" =>
        /\ last.log = IF VisitFails THEN SubSeq(WalkArgs, 1, last.arg) ELSE WalkArgs
        /\ last.err = IF VisitFails THEN "visit"
                      ELSE IF last.name = "improper" THEN "skim: cannot walk"
                      ELSE ""

(***************************************************************************)
(* C30 -- map(L, fn) with a never-failing fn returns a new container of     *)
(* the kind of L with as many elements, whose i-th element is fn applied to *)
(* the i-th element of L; map(L, identity) is structurally equal to L for   *)
(* every proper Pair chain or Vector L, chains with #nil elements included. *)
(* Stated for the containers of one element or more: it is violated there   *)
(* already, and what the empty container maps to is a statement of its own. *)
(***************************************************************************)
\* The function that was mapped.
MapFn == [name |-> last.name, failsAt |-> last.arg]

NeverFails == last.name # "nil" /\ last.arg = 0

MapCalled == last.op \in {"Map", "builtins.Map"}

MapProper == Len(last.log) > 0 /\ last.form \in {List(last.log), Vector(last.log)}

MapExpected ==
    IF Kind(last.form) = "vec"
    THEN Vector([i \in 1 .. Len(last.log) |-> MapFunc(MapFn, last.log[i])])
    ELSE List([i \in 1 .. Len(last.log) |-> MapFunc(MapFn, last.log[i])])

C30_MapElementwise ==
    (MapCalled /\ MapProper /\ NeverFails) =>
        /\ last.err = ""
        /\ last.value = MapExpected
        /\ last.name = "identity" => last.value = last.form

(***************************************************************************)
(* C31 -- mapping over the empty container, which is the absent value, the  *)
(* canonical empty-list value () or the empty vector, returns it unchanged, *)
(* with no error, without ever invoking fn.                                 *)
(***************************************************************************)
MapEmpty == last.log = <<>> /\ last.form \in {Nil, List(<<>>), Vector(<<>>)}

C31_EmptyMapsToItself ==
    (MapCalled /\ MapEmpty) =>
        /\ last.err = ""
        /\ last.value = last.form
        /\ last.ret = 0

(***************************************************************************)
(* C39 -- map short-circuits: when fn fails on the i-th element of a proper *)
(* chain or of a vector, map returns that error and no container and fn is  *)
(* not invoked on any element after the i-th; a nil fn is reported as an    *)
(* error on the first element.                                              *)
(***************************************************************************)
FnFailsAt == last.name # "nil" /\ last.arg \in 1 .. Len(last.log)

RECURSIVE SingleSteps(_, _)
SingleSteps(a, seq) ==
    IF Len(seq) = 0 THEN [value |-> a, err |-> ""]
    ELSE LET r == IF seq[Len(seq)] = "a" THEN Car(a) ELSE Cdr(a)
         IN  IF r.err # "" THEN r ELSE SingleSteps(r.value, SubSeq(seq, 1, Len(seq) - 1))

C32_AccessorIsItsSteps ==
    last.op = "cadr" =>
        /\ last.value = SingleSteps(last.form, last.log).value
        /\ last.err = SingleSteps(last.form, last.log).err

\* cadr of (1 . 2) fails in the car step on an Integer.
C32_Witness ==
    /\ last.op = "cadr"
    /\ last.form = Cons(Integer(1), Integer(2))
    /\ last.log = <<"a", "d">>
    /\ last.err = "skim: car: skim.Int is not a *Cons"

(***************************************************************************)
(* C33 -- let evaluates its initialisers in the enclosing environment and   *)
(* binds the names only in a fresh child frame in which the body runs:      *)
(* (let ((x 1)) (+ x 1)) yields 2, and after the let returns, normally or   *)
(* with an error, every let-bound name resolves in the outer environment    *)
(* exactly as it did before the let.                                        *)
(***************************************************************************)
IsLet(form) == IsCons(form) /\ CarOf(form) = Sym("let")

\* The bindings of a let form, as letform walks them.
BindingsOf(form) == IF IsCons(CdrOf(form)) THEN Walk(CarOf(CdrOf(form))).visits ELSE <<>>

\* The names a let form binds.
LetNames(form) ==
    {Pair(BindingsOf(form)[i]).lhs[2] :
        i \in {j \in 1 .. Len(BindingsOf(form)) : Kind(Pair(BindingsOf(form)[j]).lhs) = "sym"}}

LetReturns == last.op = "none" /\ last'.op = "Eval" /\ IsLet(last'.form)

LetExample == LetOf("let", <<Binding("x", Integer(1))>>, <<PlusOne("x")>>)

LetExampleYieldsTwo ==
    (last.op = "Eval" /\ last.form = LetExample) => (last.err = "" /\ last.value = Integer(2))

RECURSIVE Assigns(_)
Assigns(a) ==
    \/ a = Sym("setq")
    \/ IsCons(a) /\ (Assigns(CarOf(a)) \/ Assigns(CdrOf(a)))

\* An initialiser of the let form makes an assignment of its own.
InitialiserAssigns(form) ==
    \E i \in 1 .. Len(BindingsOf(form)) : Assigns(BindingsOf(form)[i])

TableOps == {"Bind", "Unbind", "Resolve"}

InTable(t) == threads[t].in /\ threads[t].op \in TableOps

C34_TableLocking ==
    \A t \in Threads :
        /\ (InTable(t) /\ threads[t].op \in {"Bind", "Unbind"}) =>
               tm[threads[t].c] = [writer |-> t, readers |-> {}]
        /\ (InTable(t) /\ threads[t].op = "Resolve") =>
               (tm[threads[t].c].writer = 0 /\ t \in tm[threads[t].c].readers)
        /\ \A u \in Threads : (InTable(t) /\ InTable(u)) => ~Conflict(t, u)

\* Two resolves inspect the same frame at once.
C34_Witness ==
    \E t \in Threads, u \in Threads :
        /\ t # u
        /\ threads[t].op = "Resolve" /\ threads[u].op = "Resolve"
        /\ threads[t].in /\ threads[u].in
        /\ threads[t].c = threads[u].c

(***************************************************************************)
(* C36 -- deadlock freedom of the environment: no bind, unbind, resolve or  *)
(* upvalue ever holds more than one frame lock at a time (resolve releases  *)
(* the lock of a frame before it inspects the parent), every lock that was  *)
(* acquired is released when the operation returns, and every operation of  *)
(* every thread completes.                                                  *)
(***************************************************************************)
Holds(t, lock) == lock.writer = t \/ t \in lock.readers

\* The mutexes the thread holds.
HeldBy(t) ==
    {<<"tm", c>> : c \in {d \in DOMAIN tm : Holds(t, tm[d])}}
        \cup {<<"um", c>> : c \in {d \in DOMAIN um : Holds(t, um[d])}}

OneLockAtATime ==
    \A t \in Threads :
        /\ Cardinality(HeldBy(t)) <= 1
        /\ threads[t].op = "none" => HeldBy(t) = {}

AllReturned == \A t \in Threads : threads[t].op = "none"

\* Whenever a thread is in a call, there comes a state in which every call
\* that was made has returned.
Completes == (~AllReturned) ~> AllReturned

C36_NoDeadlock == [](OneLockAtATime) /\ Completes

\* A resolve inspects the root while another thread writes the table of the
\* child.
C36_Witness ==
    \E t \in Threads, u \in Threads :
        /\ threads[t].op = "Resolve" /\ threads[t].c = RootCtx /\ threads[t].in
        /\ threads[u].op = "Bind" /\ threads[u].c = 2 /\ threads[u].in

(***************************************************************************)
(* C35 -- Each closure invocation builds a new call frame: parameter       *)
(* bindings and the bindings the body creates are made only in that call   *)
(* frame.  An invocation leaves the binding tables of the captured         *)
(* environment chain and of the caller's chain unchanged; every call frame *)
(* starts from the captured chain alone, so it holds nothing an earlier or *)
(* an enclosing invocation bound; and a body form that only invokes the    *)
(* closure again leaves the enclosing invocation's call frame as it was.   *)
(***************************************************************************)
CallEvents(log) == SelectSeq(log, LAMBDA e : e.ev = "call")

FormEvents(log) == SelectSeq(log, LAMBDA e : e.ev = "body")

RecursesOnly(e) ==
    \/ e.form = Recurse
    \/ e.form = RecurseOrSet /\ IsTrue(e.frame.table["p"])

C35_CallFrameOnly ==
    [][last'.op = "Invoke" =>
         LET calls  == CallEvents(last'.log)
             bodies == FormEvents(last'.log)
         IN  /\ heap' = heap
             /\ \A i \in DOMAIN calls :
                   /\ calls[i].c \notin 1 .. Len(heap)
                   /\ calls[i].frame.table = DupFrame(heap, DefCtx).table
                   /\ \A j \in DOMAIN calls : j # i => calls[j].c # calls[i].c
             /\ \A i \in DOMAIN bodies, j \in DOMAIN bodies :
                   (/\ bodies[i].c = bodies[j].c
                    /\ bodies[j].i = bodies[i].i + 1
                    /\ RecursesOnly(bodies[i]))
                   => bodies[j].frame = bodies[i].frame]_vars

\* (f 1) with the body ((setq y p) (cond (p (f #nil))) y): the inner
\* invocation binds y too, and the outer one still yields its own y.
C35_Witness ==
    /\ last.op = "Invoke"
    /\ last.err = ""
    /\ last.form = List(<<Sym("f"), Integer(1)>>)
    /\ lam # Nil
    /\ lam[4] = List(<<SetqYP, Recurse, Sym("y")>>)
    /\ Len(CallEvents(last.log)) = 2
    /\ \E i \in DOMAIN last.log :
          /\ last.log[i].ev = "body"
          /\ last.log[i].c = CallEvents(last.log)[2].c
          /\ last.log[i].form = SetqYP
          /\ last.log[i].err = ""
    /\ last.value = Integer(1)

(***************************************************************************)
(* C37 -- The reader terminates on every finite input: once the stream has *)
(* reported the end of the input, Read comes to its result, an atom        *)
(* sequence or an error, whatever it was reading at that moment.           *)
(***************************************************************************)
ReportedEnd == Decoding /\ dec.d.err = "EOF"

VisitorErred == last.op = "Traverse" /\ last.arg \in 1 .. last.ret

C38_TraverseSurfacesErrors ==
    VisitorErred => last.ret = last.arg /\ last.err = "visitor"

(***************************************************************************)
(* C40 -- Token classification of integers: a token reads as an Integer    *)
(* exactly when it is an optional sign followed by a bare 0, by 0x and     *)
(* hex digits, by 0 and octal digits, or by decimal digits; its value is   *)
(* the signed value in that base; a token of any other shape that is no    *)
(* valid float, such as one with a sign after the 0x prefix, reads as the  *)
(* Symbol spelled like the token.                                          *)
(***************************************************************************)
HexDigits == {"0", "7", "8", "f"}

OctalDigits == {"0", "7"}

DecimalDigits == {"0", "7", "8"}

AllIn(txt, S) == txt # <<>> /\ \A i \in DOMAIN txt : txt[i] \in S

\* The base of an unsigned integer token, 0 if it is none.
BaseOf(txt) ==
    IF txt = <<"0">> THEN 10
    ELSE IF Len(txt) > 2 /\ SubSeq(txt, 1, 2) = <<"0", "x">> /\ AllIn(SubSeq(txt, 3, Len(txt)), HexDigits)
    THEN 16
    ELSE IF Len(txt) > 1 /\ txt[1] = "0" /\ AllIn(Tail(txt), OctalDigits) THEN 8
    ELSE IF AllIn(txt, DecimalDigits) THEN 10
    ELSE 0

RECURSIVE ValueIn(_, _)
ValueIn(txt, base) ==
    IF txt = <<>> THEN 0
    ELSE ValueIn(SubSeq(txt, 1, Len(txt) - 1), base) * base
            + (CASE txt[Len(txt)] = "7" -> 7 [] txt[Len(txt)] = "8" -> 8
                 [] txt[Len(txt)] = "f" -> 15 [] OTHER -> 0)

\* The digits of an unsigned integer token, after the prefix of its base.
DigitsOf(txt) == IF BaseOf(txt) = 16 THEN SubSeq(txt, 3, Len(txt)) ELSE txt

TokenRead == last.op = "ReadToken"

TokenSign == IF last.log[1] = "-" THEN -1 ELSE 1

TokenBody == IF last.log[1] \in {"-", "+"} THEN Tail(last.log) ELSE last.log

IntegerShaped == TokenBody # <<>> /\ BaseOf(TokenBody) # 0

ReadsAs(kind) ==
    /\ last.err = ""
    /\ Kind(last.value) = "vec"
    /\ Len(last.value[2]) = 1
    /\ Kind(last.value[2][1]) = kind

C40_IntegerTokens ==
    TokenRead =>
        /\ ReadsAs("int") <=> IntegerShaped
        /\ IntegerShaped =>
              last.value[2][1] = Integer(TokenSign * ValueIn(DigitsOf(TokenBody), BaseOf(TokenBody)))
        /\ (~IntegerShaped /\ ~ReadsAs("float")) =>
              /\ ReadsAs("sym")
              /\ last.value[2][1] = Sym(Join(last.log))

TypeOK ==
    /\ \A c \in Ctxs : heap[c].up \in 0..Len(heap)
    /\ \A c \in Ctxs : DOMAIN heap[c].table \subseteq Symbols \cup {"setq", "quote", "modulo", "let", "let*", "+", "cond", "f"}
    /\ Len(heap) <= MaxCtx
====
